---- MODULE Spec2Model ----
(***************************************************************************)
(* Timing-metric pipeline of the issue analyses:                           *)
(*   CA   completion_analysis.py       (completion time + aging, buckets)  *)
(*   CTA  completion_time_analysis.py  (closed issues only)                *)
(*   F2   feature_2.py                 (completion time + aging fallback)  *)
(* and the triage analyses (days / hours / months).                        *)
(*                                                                         *)
(* Values.  An optional value is a sequence of length <= 1: None is <<>>,  *)
(* Some(x) is <<x>>.  A datetime is [wall, tz]: the wall-clock reading in  *)
(* seconds and the UTC offset it carries (tz = None for a naive value).    *)
(* A text that the code processes (event_type, event label, comment) is a  *)
(* sequence of one-character strings, so lower(), strip() and the          *)
(* substring test are computed; names that are only compared (creator,     *)
(* issue labels) are plain strings.  A missing event_type and an empty one *)
(* are both <<>>: every test in the code treats them alike.                *)
(***************************************************************************)
EXTENDS Integers, Sequences, FiniteSets, TLC

VARIABLES
    variant,          \* which completion module the object belongs to
    issues,           \* self.issues, as loaded
    user_filter,      \* self.user_filter
    label_filter,     \* self.label_filter
    filtered_issues,  \* self.filtered_issues
    pc,               \* position of CompletionAnalysis.run
    idx,              \* next open issue of the aging loop
    now,              \* the wall clock (seconds, UTC)
    open_issues,      \* the list handed to _analyze_open_issues
    aging_data,       \* records collected so far by the aging loop
    results,          \* what run returns and reports
    printed,          \* messages printed by run
    executed,         \* statistics / chart steps run executed
    issue,            \* the issue handed to a resolver call
    rpc,              \* position of the resolver calls
    closed_at,        \* value returned by the close-time resolver
    completion,       \* value returned by the completion-duration function
    unit,             \* which triage module the call belongs to
    first_assigned,   \* value returned by the first-assignment resolver
    trend,            \* the monthly points handed to the trend chart
    since,            \* self.since
    calls,            \* calls of _filter_issues so far
    runs,             \* runs of the analysis completed before the current one
    first_run,        \* mode and summary statistics of the first run
    triage_rows,      \* rows collected by triage_time_analysis
    passed,           \* the issues argument of the module-level run
    activity,         \* state and chart data of UserActivityAnalysis
    datasets,         \* the datasets returned by the triage analyses, by unit
    normalized        \* argument and result of a timestamp normalizer call

runVars == <<issues, user_filter, label_filter, filtered_issues, pc, idx, now,
             open_issues, aging_data, results, printed, executed>>
resolveVars == <<issue, rpc, closed_at, completion, unit, first_assigned>>
sessionVars == <<since, calls, runs, first_run>>
apiVars == <<passed, activity, datasets, normalized>>
vars == <<variant, runVars, resolveVars, trend, sessionVars, triage_rows, apiVars>>

----------------------------------------------------------------------------
\* Optional values

None == <<>>
Some(x) == <<x>>
IsSome(o) == o # <<>>
Get(o) == o[1]

\* 24 * 3600 seconds: the divisor that turns total_seconds() into days.
\* A duration in days is kept as its exact numerator in seconds.
Day == 86400

Variants == {"CA", "CTA", "F2"}

----------------------------------------------------------------------------
\* Texts

LowerTable ==
    ("A" :> "a") @@ ("B" :> "b") @@ ("C" :> "c") @@ ("D" :> "d") @@
    ("E" :> "e") @@ ("F" :> "f") @@ ("G" :> "g") @@ ("H" :> "h") @@
    ("I" :> "i") @@ ("J" :> "j") @@ ("K" :> "k") @@ ("L" :> "l") @@
    ("M" :> "m") @@ ("N" :> "n") @@ ("O" :> "o") @@ ("P" :> "p") @@
    ("Q" :> "q") @@ ("R" :> "r") @@ ("S" :> "s") @@ ("T" :> "t") @@
    ("U" :> "u") @@ ("V" :> "v") @@ ("W" :> "w") @@ ("X" :> "x") @@
    ("Y" :> "y") @@ ("Z" :> "z")

\* str.lower()
Lower(s) ==
    [i \in DOMAIN s |-> IF s[i] \in DOMAIN LowerTable THEN LowerTable[s[i]] ELSE s[i]]

T_closed == <<"c", "l", "o", "s", "e", "d">>
T_Closed == <<"C", "l", "o", "s", "e", "d">>
T_CLOSED == <<"C", "L", "O", "S", "E", "D">>
T_reopened == <<"r", "e", "o", "p", "e", "n", "e", "d">>
T_assigned == <<"a", "s", "s", "i", "g", "n", "e", "d">>
T_Assigned_padded == <<" ", "A", "s", "s", "i", "g", "n", "e", "d", " ">>
T_assign == <<"a", "s", "s", "i", "g", "n">>
T_assignment == <<"a", "s", "s", "i", "g", "n", "m", "e", "n", "t">>
T_status_change ==
    <<"s", "t", "a", "t", "u", "s", "_", "c", "h", "a", "n", "g", "e">>
T_state_change ==
    <<"s", "t", "a", "t", "e", "_", "c", "h", "a", "n", "g", "e">>
T_commented == <<"c", "o", "m", "m", "e", "n", "t", "e", "d">>
T_labeled == <<"l", "a", "b", "e", "l", "e", "d">>
T_Reassign_me == <<"R", "e", "a", "s", "s", "i", "g", "n", " ", "m", "e">>
T_triage == <<"t", "r", "i", "a", "g", "e">>

\* str.strip(): leading and trailing blanks removed
RECURSIVE LStrip(_)
LStrip(s) == IF s # <<>> /\ Head(s) = " " THEN LStrip(Tail(s)) ELSE s

RECURSIVE RStrip(_)
RStrip(s) ==
    IF s # <<>> /\ s[Len(s)] = " " THEN RStrip(SubSeq(s, 1, Len(s) - 1)) ELSE s

Strip(s) == RStrip(LStrip(s))

\* sub in s
Contains(s, sub) ==
    \E k \in 0..(Len(s) - Len(sub)) : SubSeq(s, k + 1, k + Len(sub)) = sub

----------------------------------------------------------------------------
\* Datetimes

\* An aware datetime in UTC
Utc(t) == [wall |-> t, tz |-> Some(0)]

\* The instant (seconds, UTC) an aware datetime denotes
Instant(dt) == dt.wall - Get(dt.tz)

\* str(datetime): the ISO text of the value; ok = FALSE is a text that is no date
DateStr(dt) == [ok |-> TRUE, wall |-> dt.wall, tz |-> dt.tz]

\* dateutil parser.parse: the datetime a text denotes, None for ValueError
ParseDate(s) == IF s.ok THEN Some([wall |-> s.wall, tz |-> s.tz]) ELSE None

\* CompletionAnalysis._to_utc_timestamp (CA) on str(date)
CA_to_utc_timestamp(s) ==
    LET p == ParseDate(s) IN
    IF ~IsSome(p) THEN None
    ELSE IF ~IsSome(Get(p).tz)
         THEN Some([wall |-> Get(p).wall, tz |-> Some(0)])
         ELSE Some(Utc(Instant(Get(p))))

\* _to_utc_dt (CTA, F2) on an optional datetime
to_utc_dt(x) ==
    IF ~IsSome(x) THEN None
    ELSE IF IsSome(Get(x).tz) THEN x
         ELSE Some([wall |-> Get(x).wall, tz |-> Some(0)])

----------------------------------------------------------------------------
\* Close-time resolution

\* CA: the first event, in list order, of type 'closed' that has a date
RECURSIVE CA_first_closed_event(_)
CA_first_closed_event(evs) ==
    IF evs = <<>> THEN None
    ELSE IF Head(evs).event_type = T_closed /\ IsSome(Head(evs).event_date)
         THEN Some(Head(evs))
         ELSE CA_first_closed_event(Tail(evs))

\* Mutant of _get_closed_date: the fallback forgets the state test
M_get_closed_date_any_state(i) ==
    LET e == CA_first_closed_event(i.events) IN
    IF IsSome(e) THEN CA_to_utc_timestamp(DateStr(Get(Get(e).event_date)))
    ELSE IF IsSome(i.updated_date)
         THEN CA_to_utc_timestamp(DateStr(Get(i.updated_date)))
         ELSE None

\* Mutant of _get_closed_date: the first event of type 'closed' ends the
\* search, dated or not
M_get_closed_date_first_closed(i) ==
    LET at == { k \in DOMAIN i.events : i.events[k].event_type = T_closed } IN
    IF at # {}
    THEN LET e == i.events[CHOOSE k \in at : \A j \in at : k <= j]
         IN  IF IsSome(e.event_date)
             THEN CA_to_utc_timestamp(DateStr(Get(e.event_date)))
             ELSE None
    ELSE IF i.state = "closed" /\ IsSome(i.updated_date)
         THEN CA_to_utc_timestamp(DateStr(Get(i.updated_date)))
         ELSE None

\* CompletionAnalysis._get_closed_date (CA)
CA_get_closed_date(i) ==
    LET e == CA_first_closed_event(i.events) IN
    IF IsSome(e) THEN CA_to_utc_timestamp(DateStr(Get(Get(e).event_date)))
    ELSE IF i.state = "closed" /\ IsSome(i.updated_date)
         THEN CA_to_utc_timestamp(DateStr(Get(i.updated_date)))
         ELSE None

\* max(cands): the first maximal element of a non-empty list of datetimes
RECURSIVE MaxDt(_)
MaxDt(cands) ==
    IF Len(cands) = 1 THEN cands[1]
    ELSE LET m == MaxDt(Tail(cands)) IN
         IF Instant(m) > Instant(Head(cands)) THEN m ELSE Head(cands)

\* the cands list of _closed_at_from_events (CTA, F2)
RECURSIVE closed_cands(_)
closed_cands(evs) ==
    IF evs = <<>> THEN <<>>
    ELSE LET e == Head(evs)
             ts == to_utc_dt(e.event_date)
         IN  IF e.event_type # <<>> /\ Lower(e.event_type) = T_closed /\ IsSome(ts)
             THEN <<Get(ts)>> \o closed_cands(Tail(evs))
             ELSE closed_cands(Tail(evs))

\* _closed_at_from_events (CTA, F2)
closed_at_from_events(i) ==
    LET cands == closed_cands(i.events) IN
    IF cands # <<>> THEN Some(MaxDt(cands)) ELSE None

\* _updated_at (CTA, F2)
updated_at(i) == IF IsSome(i.updated_date) THEN to_utc_dt(i.updated_date) ELSE None

\* _created_at (CTA, F2)
created_at(i) == IF IsSome(i.created_date) THEN to_utc_dt(i.created_date) ELSE None

\* _closed_at (CTA)
CTA_closed_at(i) ==
    LET ts == closed_at_from_events(i) IN
    IF IsSome(ts) THEN ts
    ELSE IF i.state = "closed" THEN updated_at(i) ELSE None

\* _closed_at (F2); the Issue type has no closed_date / closed_at / closedAt
\* attribute, so the attribute probe at the head of the function finds nothing
F2_closed_at(i) ==
    LET ts == closed_at_from_events(i) IN
    IF IsSome(ts) THEN ts
    ELSE IF i.state = "closed" THEN updated_at(i) ELSE None

ClosedAt(v, i) ==
    CASE v = "CA" -> CA_get_closed_date(i)
      [] v = "CTA" -> CTA_closed_at(i)
      [] v = "F2" -> F2_closed_at(i)

----------------------------------------------------------------------------
\* Completion duration and age, in seconds (days = seconds / Day)

\* CompletionAnalysis._calculate_completion_time (CA)
CA_calculate_completion_time(i) ==
    IF i.state # "closed" THEN None
    ELSE LET created_date == IF IsSome(i.created_date)
                             THEN CA_to_utc_timestamp(DateStr(Get(i.created_date)))
                             ELSE None
             closed_date == CA_get_closed_date(i)
         IN  IF ~IsSome(created_date) \/ ~IsSome(closed_date) THEN None
             ELSE Some(Instant(Get(closed_date)) - Instant(Get(created_date)))

\* CompletionAnalysis._completion_days (CTA)
CTA_completion_days(i) ==
    IF i.state # "closed" THEN None
    ELSE LET c0 == created_at(i)
             c1 == CTA_closed_at(i)
         IN  IF ~IsSome(c0) \/ ~IsSome(c1) THEN None
             ELSE LET d == Instant(Get(c1)) - Instant(Get(c0)) IN
                  IF d >= 0 THEN Some(d) ELSE None

\* CompletionAnalysis._completion_days (F2)
F2_completion_days(i) ==
    IF i.state # "closed" THEN None
    ELSE LET c0 == created_at(i)
             c1 == F2_closed_at(i)
         IN  IF ~IsSome(c0) \/ ~IsSome(c1) THEN None
             ELSE LET d == Instant(Get(c1)) - Instant(Get(c0)) IN
                  IF d >= 0 THEN Some(d) ELSE None

CompletionTime(v, i) ==
    CASE v = "CA" -> CA_calculate_completion_time(i)
      [] v = "CTA" -> CTA_completion_days(i)
      [] v = "F2" -> F2_completion_days(i)

----------------------------------------------------------------------------
\* Inputs of the resolver calls

MaxEvents == 3

\* model.Event: the fields the analyses read
Ev(type, date) ==
    [event_type |-> type, event_date |-> date, label |-> <<>>, comment |-> <<>>,
     author |-> "bob"]

\* model.Issue: the fields the analyses read
Iss(number, creator, state, created, updated, labels, assignees, events) ==
    [number |-> number, creator |-> creator, state |-> state,
     created_date |-> created, updated_date |-> updated, labels |-> labels,
     assignees |-> assignees, events |-> events]

\* Events of an issue handed to the close-time resolver: closing events at
\* three instants, one without a date, one spelled with a capital, one given
\* in a +01:00 zone (the instant of day 5), and a reopening.
CloseEvents ==
    { Ev(T_closed, Some(Utc(1 * Day))),
      Ev(T_closed, Some(Utc(3 * Day))),
      Ev(T_closed, Some(Utc(6 * Day))),
      Ev(T_closed, Some([wall |-> 5 * Day + 3600, tz |-> Some(3600)])),
      Ev(T_closed, None),
      Ev(T_Closed, Some(Utc(7 * Day))),
      Ev(T_reopened, Some(Utc(2 * Day))) }

SeqsUpTo(S, n) == UNION { [1..k -> S] : k \in 0..n }

CloseIssues ==
    { Iss(1, "alice", st, cr, up, <<>>, <<>>, evs) :
        st \in {"open", "closed"},
        cr \in {None, Some(Utc(0)), Some(Utc(5 * Day))},
        up \in {None, Some(Utc(4 * Day)), Some([wall |-> 4 * Day, tz |-> None])},
        evs \in SeqsUpTo(CloseEvents, MaxEvents) }

NoIssue == Iss(0, "", "open", None, None, <<>>, <<>>, <<>>)

\* no normalizer call in progress
NoCall == [state |-> "off", x |-> <<>>, out |-> <<>>]

\* no UserActivityAnalysis object
NoActivity ==
    [pc |-> "off", raised |-> "", loaded |-> FALSE, months |-> <<>>,
     keys |-> {}, table |-> <<>>, area |-> <<>>, kind |-> <<>>, drawn |-> FALSE]

\* self.results = {}
NoResults ==
    [mode |-> "none", records |-> <<>>, statistics |-> None, label_groups |-> <<>>,
     label_stats |-> <<>>, raised |-> ""]

----------------------------------------------------------------------------
\* The resolver calls: _closed_at(issue), then _completion_days(issue)

InitRunIdle ==
    /\ issues = <<>>
    /\ user_filter = None
    /\ label_filter = None
    /\ filtered_issues = <<>>
    /\ pc = "off"
    /\ idx = 0
    /\ now = 0
    /\ open_issues = <<>>
    /\ aging_data = <<>>
    /\ results = NoResults
    /\ printed = {}
    /\ executed = {}
    /\ trend = [drawn |-> FALSE, overall |-> <<>>, labels |-> <<>>]
    /\ since = None
    /\ calls = 0
    /\ runs = 0
    /\ first_run = None
    /\ passed = None
    /\ activity = NoActivity
    /\ datasets = <<>>
    /\ normalized = NoCall

InitClose ==
    /\ variant \in Variants
    /\ issue \in CloseIssues
    /\ rpc = "start"
    /\ closed_at = None
    /\ completion = None
    /\ unit = "none"
    /\ first_assigned = None
    /\ triage_rows = <<>>
    /\ InitRunIdle

\* a call of _get_closed_date / _closed_at
ResolveClose ==
    /\ rpc = "start"
    /\ closed_at' = ClosedAt(variant, issue)
    /\ rpc' = "resolved"
    /\ UNCHANGED <<variant, issue, completion, unit, first_assigned, runVars,
                   trend, sessionVars, triage_rows, apiVars>>

\* a call of _calculate_completion_time / _completion_days
ComputeCompletion ==
    /\ rpc = "resolved"
    /\ completion' = CompletionTime(variant, issue)
    /\ rpc' = "done"
    /\ UNCHANGED <<variant, issue, closed_at, unit, first_assigned, runVars,
                   trend, sessionVars, triage_rows, apiVars>>

NextClose == ResolveClose \/ ComputeCompletion

SpecClose == InitClose /\ [][NextClose]_vars

----------------------------------------------------------------------------
\* Properties of close-time resolution

\* the instant a stored date denotes, a naive one read as UTC
RawInstant(dt) == IF IsSome(dt.tz) THEN dt.wall - Get(dt.tz) ELSE dt.wall

\* positions of the dated events whose type is "closed" in any letter case
DatedClosed(i) ==
    { k \in DOMAIN i.events :
        /\ Lower(i.events[k].event_type) = T_closed
        /\ IsSome(i.events[k].event_date) }

AnyClosedEvent(i) ==
    \E k \in DOMAIN i.events : Lower(i.events[k].event_type) = T_closed

SetMax(S) == CHOOSE m \in S : \A x \in S : x <= m

\* C2: for an issue with two or more dated events of type closed (all spelled
\* "closed"; letter case is another claim's subject), in any list order, the
\* resolved close instant is the maximum of their timestamps, in CA, CTA and F2.
C2_LatestCloseWins ==
    ( /\ rpc # "start"
      /\ Cardinality(DatedClosed(issue)) >= 2
      /\ \A k \in DatedClosed(issue) : issue.events[k].event_type = T_closed )
    => /\ IsSome(closed_at)
       /\ Instant(Get(closed_at)) =
            SetMax({ RawInstant(Get(issue.events[k].event_date)) :
                       k \in DatedClosed(issue) })

\* C4: for an issue with no event of type closed, the resolved close instant
\* is the issue's updated instant when the state is closed and an updated date
\* exists, and null otherwise; a closed issue without events created on day 0
\* and updated on day 4 gets a completion duration of 4 days.
C4_UpdatedFallback ==
    /\ (rpc # "start" /\ ~AnyClosedEvent(issue)) =>
         IF issue.state = "closed" /\ IsSome(issue.updated_date)
         THEN /\ IsSome(closed_at)
              /\ Instant(Get(closed_at)) = RawInstant(Get(issue.updated_date))
         ELSE closed_at = None
    /\ ( /\ rpc = "done"
         /\ issue.events = <<>>
         /\ issue.state = "closed"
         /\ issue.created_date = Some(Utc(0))
         /\ issue.updated_date = Some(Utc(4 * Day)) )
       => completion = Some(4 * Day)

\* C4 witness: the closed issue without events, created day 0 and updated
\* day 4, resolved by CA through the fallback to 4 days
C4_Witness ==
    /\ rpc = "done"
    /\ variant = "CA"
    /\ issue.events = <<>>
    /\ issue.state = "closed"
    /\ issue.created_date = Some(Utc(0))
    /\ issue.updated_date = Some(Utc(4 * Day))
    /\ closed_at = Some(Utc(4 * Day))
    /\ completion = Some(4 * Day)

----------------------------------------------------------------------------
\* First-assignment resolution (triage_time_analysis, _hours, _months)

Units == {"days", "hours", "months"}

AssignTypes ==
    {T_assigned, T_assign, T_assignment, T_status_change, T_state_change}

\* key=lambda ev: ev.event_date or created
SortKey(e, created) ==
    IF IsSome(e.event_date) THEN Instant(Get(e.event_date)) ELSE Instant(created)

\* one insertion of sorted(): behind every element whose key is not greater
RECURSIVE InsertByKey(_, _, _)
InsertByKey(e, sorted, created) ==
    IF sorted = <<>> THEN <<e>>
    ELSE IF SortKey(Head(sorted), created) <= SortKey(e, created)
         THEN <<Head(sorted)>> \o InsertByKey(e, Tail(sorted), created)
         ELSE <<e>> \o sorted

\* sorted(issue.events, key=...): ascending and stable
RECURSIVE SortedByKey(_, _)
SortedByKey(evs, created) ==
    IF evs = <<>> THEN <<>>
    ELSE InsertByKey(evs[Len(evs)],
                     SortedByKey(SubSeq(evs, 1, Len(evs) - 1), created), created)

\* Mutant of sorted_events: the events are scanned in list order
M_sorted_events_unsorted(i) == i.events

\* sorted_events of _first_assignment_event
sorted_events(i) == SortedByKey(i.events, Get(i.created_date))

\* the two tests of the loop body: the type test, then the text heuristic
Qualifies(e) ==
    /\ e.event_type # <<>>
    /\ \/ Lower(Strip(e.event_type)) \in AssignTypes
       \/ e.label # <<>> /\ Contains(Lower(e.label), T_assign)
       \/ e.comment # <<>> /\ Contains(Lower(e.comment), T_assign)

\* the scan: the first event of the list that passes the tests
RECURSIVE FirstQualifying(_)
FirstQualifying(evs) ==
    IF evs = <<>> THEN None
    ELSE IF Qualifies(Head(evs)) THEN Some(Head(evs))
         ELSE FirstQualifying(Tail(evs))

\* TriageTimeAnalysis._first_assignment_event (days, months) and the inlined
\* loop of the hours module
first_assignment_event(i) ==
    IF ~IsSome(i.created_date) THEN None
    ELSE FirstQualifying(sorted_events(i))

\* the tests of the loop inlined in triage_time_analysis of the hours module
TH_indicates(e) ==
    IF e.event_type = <<>> THEN FALSE
    ELSE LET et == Lower(Strip(e.event_type))
         IN  \/ et \in {T_assigned, T_assign, T_assignment, T_status_change,
                        T_state_change}
             \/ (e.label # <<>> /\ Contains(Lower(e.label), T_assign))
             \/ (e.comment # <<>> /\ Contains(Lower(e.comment), T_assign))

\* the inlined loop of the hours module: first_assigned = e; break
RECURSIVE TH_scan(_)
TH_scan(evs) ==
    IF evs = <<>> THEN None
    ELSE IF TH_indicates(Head(evs)) THEN Some(Head(evs))
         ELSE TH_scan(Tail(evs))

\* Mutant of TH_first_assigned: the hours module scans the events unsorted
M_TH_first_assigned_unsorted(i) == TH_scan(i.events)

\* first_assigned of the hours module for an issue with a created date
TH_first_assigned(i) == TH_scan(SortedByKey(i.events, Get(i.created_date)))

\* the tests of _first_assignment_event of the months module
TM_indicates(e) ==
    IF e.event_type = <<>> THEN FALSE
    ELSE LET et == Lower(Strip(e.event_type))
         IN  \/ et \in {T_assigned, T_assign, T_assignment, T_status_change,
                        T_state_change}
             \/ (e.label # <<>> /\ Contains(Lower(e.label), T_assign))
             \/ (e.comment # <<>> /\ Contains(Lower(e.comment), T_assign))

RECURSIVE TM_scan(_)
TM_scan(evs) ==
    IF evs = <<>> THEN None
    ELSE IF TM_indicates(Head(evs)) THEN Some(Head(evs))
         ELSE TM_scan(Tail(evs))

\* TriageTimeAnalysis._first_assignment_event of the months module
TM_first_assignment_event(i) ==
    IF ~IsSome(i.created_date) THEN None
    ELSE TM_scan(SortedByKey(i.events, Get(i.created_date)))

----------------------------------------------------------------------------
\* The first-assignment resolver call

EvText(type, date, label, comment) ==
    [event_type |-> type, event_date |-> date, label |-> label,
     comment |-> comment, author |-> "bob"]

\* Events of an issue handed to the first-assignment resolver.  The issue is
\* created on day 2.
TriageEvents ==
    { Ev(T_commented, Some(Utc(1 * Day))),
      Ev(T_assigned, Some(Utc(3 * Day))),
      Ev(T_assigned, Some(Utc(5 * Day))),
      Ev(T_assigned, Some(Utc(1 * Day))),
      Ev(T_assigned, None),
      Ev(T_Assigned_padded, Some(Utc(4 * Day))),
      EvText(T_labeled, Some(Utc(4 * Day)), T_triage, T_Reassign_me),
      EvText(<<>>, Some(Utc(1 * Day)), T_assign, <<>>) }

TriageIssues ==
    { Iss(1, "alice", "open", cr, None, <<>>, <<>>, evs) :
        cr \in {None, Some(Utc(2 * Day))},
        evs \in SeqsUpTo(TriageEvents, MaxEvents) }

InitTriage ==
    /\ unit \in Units
    /\ issue \in TriageIssues
    /\ rpc = "start"
    /\ first_assigned = None
    /\ variant = "none"
    /\ closed_at = None
    /\ completion = None
    /\ triage_rows = <<>>
    /\ InitRunIdle

\* a call of _first_assignment_event (the inlined loop in the hours module)
ResolveFirstAssignment ==
    /\ rpc = "start"
    /\ first_assigned' = first_assignment_event(issue)
    /\ rpc' = "assigned"
    /\ UNCHANGED <<variant, issue, closed_at, completion, unit, runVars, trend,
                   sessionVars, triage_rows, apiVars>>

NextTriage == ResolveFirstAssignment

SpecTriage == InitTriage /\ [][NextTriage]_vars

----------------------------------------------------------------------------
\* Properties of first-assignment resolution

QualifyingAt(i) == { k \in DOMAIN i.events : Qualifies(i.events[k]) }

SetMin(S) == CHOOSE m \in S : \A x \in S : m <= x

\* C3: for an issue with a created date, whatever the list order of its
\* events, the event returned is a qualifying event whose sort key (event_date,
\* or the created date for an event without a date) is the smallest among the
\* qualifying events; with no qualifying event the result is null.
C3_EarliestQualifyingWins ==
    (rpc = "assigned" /\ IsSome(issue.created_date)) =>
      IF QualifyingAt(issue) = {} THEN first_assigned = None
      ELSE /\ IsSome(first_assigned)
           /\ \E k \in QualifyingAt(issue) : issue.events[k] = Get(first_assigned)
           /\ SortKey(Get(first_assigned), Get(issue.created_date)) =
                SetMin({ SortKey(issue.events[k], Get(issue.created_date)) :
                           k \in QualifyingAt(issue) })

\* C3 witness: events listed as [assigned@day5, commented@day1, assigned@day3];
\* the resolver returns assigned@day3
C3_Witness ==
    /\ rpc = "assigned"
    /\ issue.events = << Ev(T_assigned, Some(Utc(5 * Day))),
                         Ev(T_commented, Some(Utc(1 * Day))),
                         Ev(T_assigned, Some(Utc(3 * Day))) >>
    /\ first_assigned = Some(Ev(T_assigned, Some(Utc(3 * Day))))

----------------------------------------------------------------------------
\* Filtering and the record datasets of CompletionAnalysis

\* CA._get_issue_labels, _labels (CTA, F2)
GetIssueLabels(i) == IF i.labels # <<>> THEN i.labels ELSE <<"unlabeled">>

InSeq(x, sq) == \E k \in DOMAIN sq : sq[k] = x

\* pd.to_datetime(text, utc=True, errors="coerce"); None stands for NaT
pd_to_datetime_utc(s) ==
    LET p == ParseDate(s) IN
    IF ~IsSome(p) THEN None
    ELSE IF IsSome(Get(p).tz) THEN Some(Utc(Instant(Get(p))))
         ELSE Some(Utc(Get(p).wall))

\* items = self.issues: the local name and the attribute are one list object
bind_source(all) == [source |-> all, items |-> all, alias |-> TRUE]

\* Mutant of the list comprehension: the list is filtered in place
M_comprehension_in_place(st, kept) ==
    [source |-> IF st.alias THEN kept ELSE st.source, items |-> kept,
     alias |-> st.alias]

\* items = [i for i in items if ...]: a new list is bound to the local name
comprehension(st, kept) == [source |-> st.source, items |-> kept, alias |-> FALSE]

\* if self.user_filter: ...
by_user(st, user) ==
    IF IsSome(user)
    THEN comprehension(st, SelectSeq(st.items, LAMBDA i : i.creator = Get(user)))
    ELSE st

\* if self.label_filter: ...  CA tests issue.labels, CTA and F2 test
\* _labels(issue)
by_label(v, st, label) ==
    IF IsSome(label)
    THEN IF v = "CA"
         THEN comprehension(st, SelectSeq(st.items,
                                  LAMBDA i : InSeq(Get(label), i.labels)))
         ELSE comprehension(st, SelectSeq(st.items,
                                  LAMBDA i : InSeq(Get(label), GetIssueLabels(i))))
    ELSE st

\* Mutant of the since test: an issue created at the since instant is dropped
M_since_keeps_strict(i, start) ==
    IsSome(created_at(i)) /\ Instant(Get(created_at(i))) > Instant(start)

\* c and c >= start.to_pydatetime()
since_keeps(i, start) ==
    IsSome(created_at(i)) /\ Instant(Get(created_at(i))) >= Instant(start)

\* Mutant of the since step: NaT is compared like a date and keeps nothing
M_by_since_nat_compared(v, st, snc) ==
    IF v = "CA" \/ ~IsSome(snc) THEN st
    ELSE LET start == pd_to_datetime_utc(Get(snc)) IN
         IF ~IsSome(start) THEN comprehension(st, <<>>)
         ELSE comprehension(st, SelectSeq(st.items,
                                  LAMBDA i : since_keeps(i, Get(start))))

\* if self.since: ...  (CTA, F2; CA has no since parameter)
by_since(v, st, snc) ==
    IF v = "CA" \/ ~IsSome(snc) THEN st
    ELSE LET start == pd_to_datetime_utc(Get(snc)) IN
         IF ~IsSome(start) THEN st
         ELSE comprehension(st, SelectSeq(st.items,
                                  LAMBDA i : since_keeps(i, Get(start))))

\* CompletionAnalysis._filter_issues: the list returned (items) and the list
\* self.issues refers to afterwards (source)
filter_issues(v, all, user, label, snc) ==
    by_since(v, by_label(v, by_user(bind_source(all), user), label), snc)

\* _filter_issues without a since parameter
FilterIssues(v, all, user, label) == filter_issues(v, all, user, label, None).items

\* closed = [i for i in self.filtered_issues if i.state == State.closed]
ClosedIssues(fi) == SelectSeq(fi, LAMBDA i : i.state = "closed")

\* open_ = [i for i in self.filtered_issues if i.state == State.open]
OpenIssues(fi) == SelectSeq(fi, LAMBDA i : i.state = "open")

\* the rows appended by the loop of _analyze_closed_issues
RECURSIVE CompletionData(_, _)
CompletionData(v, closed) ==
    IF closed = <<>> THEN <<>>
    ELSE LET it == Head(closed)
             d == CompletionTime(v, it)
         IN  IF IsSome(d)
             THEN << [issue_number |-> it.number, value |-> Get(d),
                      labels |-> GetIssueLabels(it)] >>
                  \o CompletionData(v, Tail(closed))
             ELSE CompletionData(v, Tail(closed))

\* CompletionAnalysis._calculate_open_age (CA); clock is what
\* datetime.now(timezone.utc) returns inside the call
CA_calculate_open_age(i, clock) ==
    IF i.state # "open" THEN None
    ELSE LET created_date == IF IsSome(i.created_date)
                             THEN CA_to_utc_timestamp(DateStr(Get(i.created_date)))
                             ELSE None
         IN  IF ~IsSome(created_date) THEN None
             ELSE Some(clock - Instant(Get(created_date)))

\* CompletionAnalysis._open_age_days (F2)
F2_open_age_days(i, clock) ==
    IF i.state # "open" THEN None
    ELSE LET c0 == created_at(i) IN
         IF ~IsSome(c0) THEN None ELSE Some(clock - Instant(Get(c0)))

OpenAge(v, i, clock) ==
    IF v = "CA" THEN CA_calculate_open_age(i, clock) ELSE F2_open_age_days(i, clock)

----------------------------------------------------------------------------
\* Aggregation

\* Distribution buckets of CA (days): fast / recent, normal, slow / old, stale
InFast(d) == d <= 7 * Day
\* Mutant of the normal bucket: its lower boundary is inclusive
M_InNormal_inclusive(d) == d >= 7 * Day /\ d <= 30 * Day

InNormal(d) == d > 7 * Day /\ d <= 30 * Day
InSlow(d) == d > 30 * Day /\ d <= 90 * Day
InStale(d) == d > 90 * Day

\* len(series[mask]) for each of the four masks
BucketCounts(recs) ==
    [fast |-> Cardinality({ k \in DOMAIN recs : InFast(recs[k].value) }),
     normal |-> Cardinality({ k \in DOMAIN recs : InNormal(recs[k].value) }),
     slow |-> Cardinality({ k \in DOMAIN recs : InSlow(recs[k].value) }),
     stale |-> Cardinality({ k \in DOMAIN recs : InStale(recs[k].value) })]

\* Mutant of the label_data rows: only the first label of a record gets a row
RECURSIVE M_LabelRows_first_label(_)
M_LabelRows_first_label(recs) ==
    IF recs = <<>> THEN <<>>
    ELSE << [label |-> Head(recs).labels[1], value |-> Head(recs).value] >>
         \o M_LabelRows_first_label(Tail(recs))

\* the label_data rows: one row per record and label of the record
RECURSIVE LabelRows(_)
LabelRows(recs) ==
    IF recs = <<>> THEN <<>>
    ELSE [k \in DOMAIN Head(recs).labels |->
            [label |-> Head(recs).labels[k], value |-> Head(recs).value]]
         \o LabelRows(Tail(recs))

\* label names in the order groupby lists them (sorted)
LabelOrder ==
    <<"bug", "l01", "l02", "l03", "l04", "l05", "l06", "l07", "l08", "l09",
      "ui", "unlabeled">>

\* groupby('label'): per label present, the values of its rows in row order
GroupValues(rows, lab) ==
    LET sel == SelectSeq(rows, LAMBDA r : r.label = lab) IN
    [k \in DOMAIN sel |-> sel[k].value]

GroupBy(rows) ==
    LET present == SelectSeq(LabelOrder, LAMBDA lab : \E k \in DOMAIN rows : rows[k].label = lab)
    IN  [k \in DOMAIN present |->
           [label |-> present[k], values |-> GroupValues(rows, present[k])]]

\* ascending insertion sort of numbers
RECURSIVE SortNums(_)
SortNums(xs) ==
    IF xs = <<>> THEN <<>>
    ELSE LET rest == SortNums(Tail(xs))
             lo == SelectSeq(rest, LAMBDA y : y <= Head(xs))
             hi == SelectSeq(rest, LAMBDA y : y > Head(xs))
         IN  lo \o <<Head(xs)>> \o hi

\* twice the median of a non-empty list (the mean of the two middle values
\* for an even count)
Median2(xs) ==
    LET srt == SortNums(xs)
        n == Len(xs)
    IN  IF n % 2 = 1 THEN 2 * srt[(n + 1) \div 2]
        ELSE srt[n \div 2] + srt[n \div 2 + 1]

\* round half to even of num / den, den > 0
RoundHalfEven(num, den) ==
    LET q == num \div den
        r == num - q * den
    IN  IF 2 * r < den THEN q
        ELSE IF 2 * r > den THEN q + 1
        ELSE IF q % 2 = 0 THEN q ELSE q + 1

\* .round(1) of a median in days, given and returned as twice its seconds
Round1(m2) == RoundHalfEven(m2 * 10, 2 * Day) * ((2 * Day) \div 10)

\* .agg(['median', 'count']) of the groups
Agg(groups, rounded) ==
    [k \in DOMAIN groups |->
       [label |-> groups[k].label,
        median2 |-> IF rounded THEN Round1(Median2(groups[k].values))
                    ELSE Median2(groups[k].values),
        count |-> Len(groups[k].values)]]

\* Mutant of the gate: the comparison is strict
M_Gate_strict(stats, n) == SelectSeq(stats, LAMBDA g : g.count > n)

\* stats[stats['count'] >= n] / .query("count >= 3")
Gate(stats, n) == SelectSeq(stats, LAMBDA g : g.count >= n)

\* sort_values('median', ascending=asc), ties kept in their order
RECURSIVE SortByMedian(_, _)
SortByMedian(stats, asc) ==
    IF stats = <<>> THEN <<>>
    ELSE LET g == stats[Len(stats)]
             rest == SortByMedian(SubSeq(stats, 1, Len(stats) - 1), asc)
             before == SelectSeq(rest, LAMBDA h :
                          IF asc THEN h.median2 <= g.median2 ELSE h.median2 >= g.median2)
             after == SelectSeq(rest, LAMBDA h :
                          IF asc THEN h.median2 > g.median2 ELSE h.median2 < g.median2)
         IN  before \o <<g>> \o after

\* .head(n)
HeadN(sq, n) == SubSeq(sq, 1, IF Len(sq) < n THEN Len(sq) ELSE n)

----------------------------------------------------------------------------
\* Label listings

MinCountCompletion == 3
MinCountStalest == 2
TopLabels == 10

\* Mutant of _analyze_by_labels: the listing is sorted slowest first
M_analyze_by_labels_descending(recs) ==
    HeadN(SortByMedian(Gate(Agg(GroupBy(LabelRows(recs)), TRUE), MinCountCompletion),
                       FALSE),
          TopLabels)

\* CA._analyze_by_labels: the listing that is printed
CA_analyze_by_labels(recs) ==
    HeadN(SortByMedian(Gate(Agg(GroupBy(LabelRows(recs)), TRUE), MinCountCompletion),
                       TRUE),
          TopLabels)

\* CA._analyze_stalest_labels: the listing that is printed
CA_analyze_stalest_labels(recs) ==
    HeadN(SortByMedian(Gate(Agg(GroupBy(LabelRows(recs)), TRUE), MinCountStalest),
                       FALSE),
          TopLabels)

\* stats of _analyze_closed_issues (CTA, F2): its first row is printed as the
\* fastest label, its last row as the slowest
label_stats(recs) ==
    SortByMedian(Gate(Agg(GroupBy(LabelRows(recs)), FALSE), MinCountCompletion), TRUE)

----------------------------------------------------------------------------
\* Monthly trend

\* the calendar year of instant 0: instant 0 is 2023-01-01T00:00:00Z
EpochYear == 2023

IsLeap(y) == (y % 4 = 0 /\ y % 100 # 0) \/ y % 400 = 0

DaysInMonth(y, m) ==
    IF m = 2 THEN (IF IsLeap(y) THEN 29 ELSE 28)
    ELSE IF m \in {4, 6, 9, 11} THEN 30 ELSE 31

\* the month that holds day d, counted from the first day of month m of year y
RECURSIVE YearMonthFrom(_, _, _)
YearMonthFrom(d, y, m) ==
    IF d < DaysInMonth(y, m) THEN [year |-> y, month |-> m]
    ELSE IF m = 12 THEN YearMonthFrom(d - DaysInMonth(y, m), y + 1, 1)
         ELSE YearMonthFrom(d - DaysInMonth(y, m), y, m + 1)

\* strftime('%Y-%m') / dt.to_period("M") of a UTC datetime (instant >= 0)
year_month(dt) == YearMonthFrom(Instant(dt) \div Day, EpochYear, 1)

\* the order of the 'YYYY-MM' texts
MonthKey(ym) == 12 * ym.year + ym.month

\* monthly_data of CA._analyze_monthly_trends: keyed by the created month
RECURSIVE CA_monthly_data(_)
CA_monthly_data(closed) ==
    IF closed = <<>> THEN <<>>
    ELSE LET it == Head(closed)
             completion_time == CA_calculate_completion_time(it)
             created_date == IF IsSome(it.created_date)
                             THEN CA_to_utc_timestamp(DateStr(Get(it.created_date)))
                             ELSE None
         IN  IF IsSome(completion_time) /\ IsSome(created_date)
             THEN << [month |-> year_month(Get(created_date)),
                      value |-> Get(completion_time), labels |-> <<>>] >>
                  \o CA_monthly_data(Tail(closed))
             ELSE CA_monthly_data(Tail(closed))

\* df with its closed_month column (CTA, F2): keyed by the closed month
RECURSIVE closed_month_rows(_, _)
closed_month_rows(v, closed) ==
    IF closed = <<>> THEN <<>>
    ELSE LET it == Head(closed)
             d == CompletionTime(v, it)
         IN  IF IsSome(d)
             THEN << [month |-> year_month(Get(ClosedAt(v, it))), value |-> Get(d),
                      labels |-> GetIssueLabels(it)] >>
                  \o closed_month_rows(v, Tail(closed))
             ELSE closed_month_rows(v, Tail(closed))

\* a sorted list without its repetitions
RECURSIVE Dedup(_)
Dedup(xs) ==
    IF Len(xs) <= 1 THEN xs
    ELSE IF xs[1] = xs[2] THEN Dedup(Tail(xs))
         ELSE <<xs[1]>> \o Dedup(Tail(xs))

\* groupby(month)[value].agg(['median', 'count']), months ascending
monthly_stats(mrows) ==
    LET keys == Dedup(SortNums([k \in DOMAIN mrows |-> MonthKey(mrows[k].month)]))
    IN  [k \in DOMAIN keys |->
           LET sel == SelectSeq(mrows, LAMBDA r : MonthKey(r.month) = keys[k])
           IN  [month |-> sel[1].month,
                median2 |-> Median2([j \in DOMAIN sel |-> sel[j].value]),
                count |-> Len(sel)]]

NoTrend == [drawn |-> FALSE, overall |-> <<>>, labels |-> <<>>]

MinCountMonth == 3
TopTrendLabels == 3

\* monthly_stats[monthly_stats['count'] >= 3]
month_gate(stats) == SelectSeq(stats, LAMBDA g : g.count >= MinCountMonth)

\* CA._analyze_monthly_trends: the plot is drawn when two gated months remain
CA_analyze_monthly_trends(closed) ==
    LET monthly_data == CA_monthly_data(closed)
        gated == month_gate(monthly_stats(monthly_data))
    IN  IF monthly_data = <<>> \/ Len(gated) < 2 THEN NoTrend
        ELSE [drawn |-> TRUE, overall |-> gated, labels |-> <<>>]

\* the exploded rows: one per record and label, with the month
RECURSIVE LabelMonthRows(_)
LabelMonthRows(mrows) ==
    IF mrows = <<>> THEN <<>>
    ELSE [k \in DOMAIN Head(mrows).labels |->
            [label |-> Head(mrows).labels[k], month |-> Head(mrows).month,
             value |-> Head(mrows).value]]
         \o LabelMonthRows(Tail(mrows))

\* the labels of the rows in the order of their first appearance
RECURSIVE FirstSeen(_)
FirstSeen(lrows) ==
    IF lrows = <<>> THEN <<>>
    ELSE LET lab == lrows[Len(lrows)].label
             before == FirstSeen(SubSeq(lrows, 1, Len(lrows) - 1))
         IN  IF InSeq(lab, before) THEN before ELSE Append(before, lab)

\* value_counts(): labels by descending count, equal counts in the order of
\* first appearance
RECURSIVE ByCountDesc(_, _)
ByCountDesc(labs, lrows) ==
    IF labs = <<>> THEN <<>>
    ELSE LET n(lab) == Len(SelectSeq(lrows, LAMBDA r : r.label = lab))
             lab0 == labs[Len(labs)]
             rest == ByCountDesc(SubSeq(labs, 1, Len(labs) - 1), lrows)
         IN  SelectSeq(rest, LAMBDA l : n(l) >= n(lab0)) \o <<lab0>>
             \o SelectSeq(rest, LAMBDA l : n(l) < n(lab0))

\* label_counts.head(3).index.tolist()
top_labels(lrows) == HeadN(ByCountDesc(FirstSeen(lrows), lrows), TopTrendLabels)

\* the groups of one label of label_lines, months ascending
label_line(lrows, lab) ==
    LET own == SelectSeq(lrows, LAMBDA r : r.label = lab)
        st == monthly_stats(own)
    IN  [k \in DOMAIN st |-> [label |-> lab] @@ st[k]]

RECURSIVE ConcatLines(_, _)
ConcatLines(lrows, labs) ==
    IF labs = <<>> THEN <<>>
    ELSE label_line(lrows, Head(labs)) \o ConcatLines(lrows, Tail(labs))

\* label_lines: groupby(["label", "closed_month"]).median() of the rows of the
\* top labels, labels ascending
label_lines(lrows) ==
    LET top == top_labels(lrows)
    IN  ConcatLines(lrows, SelectSeq(LabelOrder, LAMBDA lab : InSeq(lab, top)))

\* the series _plot_monthly_medians receives (CTA, F2)
plot_monthly_medians(mrows) ==
    [drawn |-> TRUE, overall |-> monthly_stats(mrows),
     labels |-> label_lines(LabelMonthRows(mrows))]

\* the trend chart of a completion-time analysis
monthly_trend(v, closed) ==
    IF v = "CA" THEN CA_analyze_monthly_trends(closed)
    ELSE plot_monthly_medians(closed_month_rows(v, closed))

----------------------------------------------------------------------------
\* What an analysis hands back: the returned dict (mode, records, statistics),
\* the label groups and listing it printed, the messages it printed, the
\* steps it executed, and the exception it raised ("" for none)

Outcome(mode, recs, stats, groups, listing, msgs, steps, raised) ==
    [mode |-> mode, records |-> recs, statistics |-> stats,
     label_groups |-> groups, label_stats |-> listing,
     printed |-> msgs, executed |-> steps, raised |-> raised]

\* the statistics and the rest of CA._analyze_closed_issues on a dataset;
\* fast/total*100 divides by the number of records
CA_closed_report(recs) ==
    IF Len(recs) = 0
    THEN Outcome("completion", recs, None, <<>>, <<>>, {}, {"stats", "buckets"},
                 "ZeroDivisionError")
    ELSE Outcome("completion", recs,
                 Some([count |-> Len(recs)] @@ BucketCounts(recs)),
                 GroupBy(LabelRows(recs)), CA_analyze_by_labels(recs),
                 {"Number of closed issues"},
                 {"stats", "buckets", "by_labels", "by_assignment",
                  "monthly_trends", "chart"},
                 "")

\* the summary and the rest of _analyze_closed_issues (CTA, F2) on a dataset;
\* df["completion_time"] of a frame without rows has no such column
closed_report(recs) ==
    IF Len(recs) = 0
    THEN Outcome("completion", recs, None, <<>>, <<>>, {}, {"stats"}, "KeyError")
    ELSE Outcome("completion", recs, Some([count |-> Len(recs)]),
                 GroupBy(LabelRows(recs)), label_stats(recs),
                 {"Closed issues analyzed"},
                 {"stats", "by_labels", "monthly_trends", "chart"},
                 "")

\* CA._analyze_closed_issues after its loop: no rows, fall back to aging
CA_analyze_closed_issues(closed, data) ==
    IF data = <<>> THEN "aging" ELSE "completion"

\* Mutant of CA.run: closed issues without a usable duration do not fall back
M_run_branch_no_fallback(closed, data) ==
    IF Len(closed) > 0 THEN "completion" ELSE "aging"

\* CA.run: the branch taken
CA_run_branch(closed, data) ==
    IF Len(closed) > 0 THEN CA_analyze_closed_issues(closed, data) ELSE "aging"

\* F2.run: res_closed is None exactly when no row was collected
F2_run_branch(closed, data) ==
    IF data = <<>> THEN "aging" ELSE "completion"

\* CTA.run: res is None exactly when no row was collected
CTA_run_branch(closed, data) ==
    IF data = <<>> THEN "none" ELSE "completion"

\* the statistics and the rest of CA._analyze_open_issues on a dataset;
\* recent/total*100 divides by the number of records
CA_open_report(recs) ==
    IF Len(recs) = 0
    THEN Outcome("aging", recs, None, <<>>, <<>>, {}, {"stats", "buckets"},
                 "ZeroDivisionError")
    ELSE Outcome("aging", recs,
                 Some([count |-> Len(recs)] @@ BucketCounts(recs)),
                 GroupBy(LabelRows(recs)), CA_analyze_stalest_labels(recs),
                 {"Number of open issues"},
                 {"stats", "buckets", "stalest_labels", "oldest_issues", "chart"},
                 "")

\* Mutant of _analyze_open_issues: the emptiness test is missing
M_analyze_open_unguarded(recs) == CA_open_report(recs)

\* CA._analyze_open_issues after its loop
CA_analyze_open_issues(recs) ==
    IF recs = <<>>
    THEN Outcome("aging", <<>>, None, <<>>, <<>>,
                 {"No valid aging data found for open issues."}, {}, "")
    ELSE CA_open_report(recs)

\* the summary and the histogram of F2._analyze_open_issues on a dataset;
\* df["age"] of a frame without rows has no such column
F2_open_report(recs) ==
    IF Len(recs) = 0
    THEN Outcome("aging", recs, None, <<>>, <<>>, {}, {"stats"}, "KeyError")
    ELSE Outcome("aging", recs, Some([count |-> Len(recs)]), <<>>, <<>>,
                 {"Open issues analyzed"}, {"stats", "chart"}, "")

\* F2._analyze_open_issues after its loop
F2_analyze_open_issues(recs) ==
    IF recs = <<>>
    THEN Outcome("aging", <<>>, None, <<>>, <<>>, {"No open issues to analyze."},
                 {}, "")
    ELSE F2_open_report(recs)

\* CTA.run when res is None
CTA_no_closed ==
    Outcome("none", <<>>, None, <<>>, <<>>,
            {"No usable closed timestamps. Nothing to plot."}, {}, "")

----------------------------------------------------------------------------
\* CompletionAnalysis: construction and run

MaxIssues == 3
MaxTicks == 1

\* the clock when run starts: day 100
NowStart == 100 * Day

WideLabels ==
    <<"bug", "l01", "l02", "l03", "l04", "l05", "l06", "l07", "l08", "l09", "ui">>

\* The issues a loaded collection is made of.  Closed: 7 days by a closing
\* event, 30 days by the updated date, closed before created (-3 days), no
\* created date, 100 days with eleven labels, 90 days.  Open, seen from day
\* 100: 100 days old, 90 days old, no created date, 7 days old with eleven
\* labels, 30 days old without labels.
IssueShapes ==
    { Iss(0, "alice", "closed", Some(Utc(0)), None, <<"bug">>, <<"bob">>,
          <<Ev(T_closed, Some(Utc(7 * Day)))>>),
      Iss(0, "bob", "closed", Some(Utc(0)), Some(Utc(30 * Day)), <<"bug", "ui">>,
          <<>>, <<>>),
      Iss(0, "alice", "closed", Some(Utc(10 * Day)), None, <<>>, <<>>,
          <<Ev(T_closed, Some(Utc(7 * Day)))>>),
      Iss(0, "alice", "closed", None, Some(Utc(30 * Day)), <<"ui">>, <<>>, <<>>),
      Iss(0, "bob", "closed", Some(Utc(0)), None, WideLabels, <<"bob">>,
          <<Ev(T_closed, Some(Utc(100 * Day)))>>),
      Iss(0, "alice", "closed", Some(Utc(10 * Day)), Some(Utc(100 * Day)),
          <<"bug">>, <<>>, <<>>),
      Iss(0, "alice", "open", Some(Utc(0)), None, <<"bug">>, <<>>, <<>>),
      Iss(0, "bob", "open", Some(Utc(10 * Day)), None, <<"bug", "ui">>, <<>>, <<>>),
      Iss(0, "alice", "open", None, None, <<"ui">>, <<>>, <<>>),
      Iss(0, "bob", "open", Some(Utc(93 * Day)), None, WideLabels, <<>>, <<>>),
      Iss(0, "alice", "open", Some(Utc(70 * Day)), None, <<>>, <<>>, <<>>) }

\* DataLoader().get_issues(): issue k of the collection has number k
Numbered(shapes) == [k \in DOMAIN shapes |-> [shapes[k] EXCEPT !.number = k]]

InitResolveIdle ==
    /\ issue = NoIssue
    /\ rpc = "off"
    /\ closed_at = None
    /\ completion = None
    /\ unit = "none"
    /\ first_assigned = None
    /\ triage_rows = <<>>

\* CompletionAnalysis.__init__
Init ==
    /\ variant \in Variants
    /\ \E shapes \in SeqsUpTo(IssueShapes, MaxIssues) : issues = Numbered(shapes)
    /\ user_filter \in {None, Some("alice")}
    /\ label_filter \in {None, Some("bug")}
    /\ filtered_issues = FilterIssues(variant, issues, user_filter, label_filter)
    /\ pc = "ready"
    /\ idx = 0
    /\ now = NowStart
    /\ open_issues = <<>>
    /\ aging_data = <<>>
    /\ results = NoResults
    /\ printed = {}
    /\ executed = {}
    /\ trend = NoTrend
    /\ since = None
    /\ calls = 1
    /\ runs = 0
    /\ first_run = None
    /\ passed = None
    /\ activity = NoActivity
    /\ datasets = <<>>
    /\ normalized = NoCall
    /\ InitResolveIdle

\* what run does with the outcome of an analysis: return it, or let the
\* exception escape
Return(out) ==
    /\ results' = [mode |-> out.mode, records |-> out.records,
                   statistics |-> out.statistics, label_groups |-> out.label_groups,
                   label_stats |-> out.label_stats, raised |-> out.raised]
    /\ printed' = printed \cup out.printed
    /\ executed' = executed \cup out.executed
    /\ pc' = IF out.raised = "" THEN "done" ELSE "raised"

\* Mutant of the fallback: the open issues are taken from self.issues
M_EnterAging_unfiltered(msg) ==
    /\ pc' = "aging"
    /\ open_issues' = OpenIssues(issues)
    /\ idx' = 1
    /\ aging_data' = <<>>
    /\ printed' = printed \cup {msg}
    /\ UNCHANGED <<results, executed>>

\* entering _analyze_open_issues(open_issues)
EnterAging(msg) ==
    /\ pc' = "aging"
    /\ open_issues' = OpenIssues(filtered_issues)
    /\ idx' = 1
    /\ aging_data' = <<>>
    /\ printed' = printed \cup {msg}
    /\ UNCHANGED <<results, executed>>

\* CA.run up to the end of _analyze_closed_issues or the entry of
\* _analyze_open_issues
CA_run ==
    /\ pc = "ready"
    /\ variant = "CA"
    /\ LET closed == ClosedIssues(filtered_issues)
           data == CompletionData("CA", closed)
       IN  IF CA_run_branch(closed, data) = "completion"
           THEN /\ Return(CA_closed_report(data))
                /\ trend' = monthly_trend("CA", closed)
                /\ UNCHANGED <<open_issues, idx, aging_data>>
           ELSE /\ EnterAging(IF Len(closed) > 0
                              THEN "No valid completion times found for closed issues."
                              ELSE "No closed issues found. Analyzing open issue aging instead...")
                /\ trend' = NoTrend
    /\ UNCHANGED <<variant, issues, user_filter, label_filter, filtered_issues, now,
                   resolveVars, sessionVars, triage_rows, apiVars>>

\* F2.run up to the end of _analyze_closed_issues or the entry of
\* _analyze_open_issues
F2_run ==
    /\ pc = "ready"
    /\ variant = "F2"
    /\ LET closed == ClosedIssues(filtered_issues)
           data == CompletionData("F2", closed)
       IN  IF F2_run_branch(closed, data) = "completion"
           THEN /\ Return(closed_report(data))
                /\ trend' = monthly_trend("F2", closed)
                /\ UNCHANGED <<open_issues, idx, aging_data>>
           ELSE /\ EnterAging("No usable closed timestamps -> Open-Issue Aging fallback")
                /\ trend' = NoTrend
    /\ UNCHANGED <<variant, issues, user_filter, label_filter, filtered_issues, now,
                   resolveVars, sessionVars, triage_rows, apiVars>>

\* CTA.run
CTA_run ==
    /\ pc = "ready"
    /\ variant = "CTA"
    /\ LET closed == ClosedIssues(filtered_issues)
           data == CompletionData("CTA", closed)
       IN  IF CTA_run_branch(closed, data) = "completion"
           THEN Return(closed_report(data)) /\ trend' = monthly_trend("CTA", closed)
           ELSE Return(CTA_no_closed) /\ trend' = NoTrend
    /\ UNCHANGED <<variant, issues, user_filter, label_filter, filtered_issues, now,
                   open_issues, idx, aging_data, resolveVars, sessionVars, triage_rows, apiVars>>

\* the row of one open issue; F2 keeps no labels in it
AgingRow(v, it, age) ==
    IF v = "CA"
    THEN [issue_number |-> it.number, value |-> age, labels |-> GetIssueLabels(it)]
    ELSE [issue_number |-> it.number, value |-> age]

\* one iteration of the loop of _analyze_open_issues (CA, F2)
AgeStep ==
    /\ pc = "aging"
    /\ idx <= Len(open_issues)
    /\ LET it == open_issues[idx]
           age == OpenAge(variant, it, now)
       IN  aging_data' = IF IsSome(age)
                         THEN Append(aging_data, AgingRow(variant, it, Get(age)))
                         ELSE aging_data
    /\ idx' = idx + 1
    /\ UNCHANGED <<variant, issues, user_filter, label_filter, filtered_issues, pc,
                   now, open_issues, results, printed, executed, resolveVars, trend,
                   sessionVars, triage_rows, apiVars>>

\* the wall clock advances while the loop runs
Tick ==
    /\ pc = "aging"
    /\ now < NowStart + MaxTicks
    /\ now' = now + 1
    /\ UNCHANGED <<variant, issues, user_filter, label_filter, filtered_issues, pc,
                   idx, open_issues, aging_data, results, printed, executed,
                   resolveVars, trend,
                   sessionVars, triage_rows, apiVars>>

\* _analyze_open_issues after its loop, and the return of run
FinishAging ==
    /\ pc = "aging"
    /\ idx > Len(open_issues)
    /\ IF variant = "CA"
       THEN Return(CA_analyze_open_issues(aging_data))
       ELSE Return(F2_analyze_open_issues(aging_data))
    /\ UNCHANGED <<variant, issues, user_filter, label_filter, filtered_issues, now,
                   open_issues, idx, aging_data, resolveVars, trend,
                   sessionVars, triage_rows, apiVars>>

Next == CA_run \/ F2_run \/ CTA_run \/ AgeStep \/ Tick \/ FinishAging

Spec == Init /\ [][Next]_vars

----------------------------------------------------------------------------
\* Construction, since overrides of the module-level run, and run

MaxFilterIssues == 2
MaxCalls == 2

\* the since instant of the parameter texts: day 5
SinceInstant == 5 * Day

\* since parameters: a UTC text, a text of the same instant written in a
\* +01:00 zone, and a text that is no date
SinceTexts ==
    { DateStr(Utc(SinceInstant)),
      DateStr([wall |-> SinceInstant + 3600, tz |-> Some(3600)]),
      [ok |-> FALSE, wall |-> 0, tz |-> None] }

\* Issues of a collection to filter: created before the since instant, at it
\* (no labels), after it, without a created date, and one second before it
\* on a +01:00 clock that reads later than the since text (no labels).
FilterShapes ==
    { Iss(0, "alice", "closed", Some(Utc(0)), Some(Utc(30 * Day)), <<"bug">>, <<>>,
          <<>>),
      Iss(0, "bob", "closed", Some(Utc(SinceInstant)), None, <<>>, <<>>,
          <<Ev(T_closed, Some(Utc(7 * Day)))>>),
      Iss(0, "alice", "open", Some(Utc(10 * Day)), None, <<"bug", "ui">>, <<>>, <<>>),
      Iss(0, "bob", "open", None, None, <<"ui">>, <<>>, <<>>),
      Iss(0, "alice", "open",
          Some([wall |-> SinceInstant + 3599, tz |-> Some(3600)]), None, <<>>, <<>>,
          <<>>) }

\* before CompletionAnalysis(): the loaded issues and the configuration
InitFilter ==
    /\ variant \in Variants
    /\ \E shapes \in SeqsUpTo(FilterShapes, MaxFilterIssues) : issues = Numbered(shapes)
    /\ user_filter \in {None, Some("alice")}
    /\ label_filter \in {None, Some("bug"), Some("unlabeled")}
    /\ since \in IF variant = "CA" THEN {None}
                 ELSE {None} \cup { Some(t) : t \in SinceTexts }
    /\ filtered_issues = <<>>
    /\ pc = "new"
    /\ idx = 0
    /\ now = NowStart
    /\ open_issues = <<>>
    /\ aging_data = <<>>
    /\ results = NoResults
    /\ printed = {}
    /\ executed = {}
    /\ trend = NoTrend
    /\ calls = 0
    /\ runs = 0
    /\ first_run = None
    /\ passed = None
    /\ activity = NoActivity
    /\ datasets = <<>>
    /\ normalized = NoCall
    /\ InitResolveIdle

\* self.filtered_issues = self._filter_issues()
Refilter(snc) ==
    LET r == filter_issues(variant, issues, user_filter, label_filter, snc)
    IN  /\ filtered_issues' = r.items
        /\ issues' = r.source
        /\ since' = snc
        /\ calls' = calls + 1

\* CompletionAnalysis.__init__
Construct ==
    /\ pc = "new"
    /\ Refilter(since)
    /\ pc' = "ready"
    /\ UNCHANGED <<variant, user_filter, label_filter, idx, now, open_issues,
                   aging_data, results, printed, executed, resolveVars, trend, runs,
                   first_run, triage_rows, apiVars>>

\* module-level run(config_dict={"since": ...}) of CTA and F2, before
\* analysis.run(): analysis.since = str(...), then the filter again
OverrideSince ==
    /\ pc = "ready"
    /\ variant \in {"CTA", "F2"}
    /\ calls < MaxCalls
    /\ \E t \in SinceTexts : Refilter(Some(t))
    /\ UNCHANGED <<variant, user_filter, label_filter, pc, idx, now, open_issues,
                   aging_data, results, printed, executed, resolveVars, trend, runs,
                   first_run, triage_rows, apiVars>>

NextFilter == Construct \/ OverrideSince \/ Next

SpecFilter == InitFilter /\ [][NextFilter]_vars

----------------------------------------------------------------------------
\* Summary statistics, and a second run on the same object

RECURSIVE SumOf(_)
SumOf(xs) == IF xs = <<>> THEN 0 ELSE Head(xs) + SumOf(Tail(xs))

\* series.quantile(num / den), linear interpolation, as den times its value
Quantile(xs, num, den) ==
    LET srt == SortNums(xs)
        pos == (Len(xs) - 1) * num
        lo == pos \div den + 1
        fr == pos % den
    IN  IF fr = 0 THEN den * srt[lo]
        ELSE den * srt[lo] + fr * (srt[lo + 1] - srt[lo])

\* count, mean (as the sum), median (doubled), 90th and 95th percentile (times
\* 10 and 20) of the values of a dataset
summary(recs) ==
    LET xs == [k \in DOMAIN recs |-> recs[k].value]
    IN  IF xs = <<>> THEN [count |-> 0]
        ELSE [count |-> Len(xs), sum |-> SumOf(xs), median2 |-> Median2(xs),
              p90 |-> Quantile(xs, 9, 10), p95 |-> Quantile(xs, 19, 20)]

\* what a run reports: its mode, its bucket counts and its summary
RunReport ==
    [mode |-> results.mode, statistics |-> results.statistics,
     summary |-> summary(results.records)]

\* the loaded snapshot of Init without user or label parameters
InitTwice == Init /\ user_filter = None /\ label_filter = None

\* run() is called a second time: same issues, same parameters
Rerun ==
    /\ pc = "done"
    /\ runs = 0
    /\ first_run' = Some(RunReport)
    /\ runs' = 1
    /\ pc' = "ready"
    /\ idx' = 0
    /\ open_issues' = <<>>
    /\ aging_data' = <<>>
    /\ UNCHANGED <<variant, issues, user_filter, label_filter, filtered_issues, now,
                   results, printed, executed, resolveVars, trend, since, calls,
                   triage_rows, apiVars>>

NextTwice == Next \/ Rerun

SpecTwice == InitTwice /\ [][NextTwice]_vars

----------------------------------------------------------------------------
\* triage_time_analysis: the loop over the loaded issues and the summary

MaxTriageIssues == 2

\* seconds per unit of the reported value: / 3600 / 24 (days), / 3600 (hours),
\* / 3600 / 24 / (365.25 / 12) (months)
SecondsPerUnit(u) ==
    IF u = "hours" THEN 3600
    ELSE IF u = "days" THEN Day
    ELSE (Day \div 1200) * 36525

\* event lists of the loaded issues; every issue with a created date is
\* created on day 2
RowEventLists ==
    { <<>>,
      << Ev(T_commented, Some(Utc(1 * Day))) >>,
      << Ev(T_assigned, Some(Utc(3 * Day))) >>,
      << Ev(T_assigned, Some(Utc(1 * Day))) >>,
      << Ev(T_assigned, None) >> }

TriageRunIssues ==
    { Iss(1, c, "open", Some(Utc(2 * Day)), None, <<>>, <<>>, evs) :
        c \in {"alice", "bob"}, evs \in RowEventLists }
    \cup { Iss(1, "alice", "open", None, None, <<>>, <<>>,
               << Ev(T_assigned, Some(Utc(3 * Day))) >>) }

\* the row appended for an issue and its first assignment event; the value
\* delta.total_seconds() / SecondsPerUnit is kept as a fraction
triage_row(i, e, u) ==
    [issue_number |-> i.number,
     creator |-> i.creator,
     created_date |-> Get(i.created_date),
     assigned_date |-> Get(e.event_date),
     value |-> [num |-> Instant(Get(e.event_date)) - Instant(Get(i.created_date)),
                den |-> SecondsPerUnit(u)]]

\* one iteration of the loop of triage_time_analysis, days module
TD_rows_of(i) ==
    IF ~IsSome(i.created_date) THEN <<>>
    ELSE LET fa == first_assignment_event(i)
         IN  IF IsSome(fa) /\ IsSome(Get(fa).event_date)
             THEN << triage_row(i, Get(fa), "days") >>
             ELSE <<>>

\* one iteration of the loop of triage_time_analysis, hours module
TH_rows_of(i) ==
    IF ~IsSome(i.created_date) THEN <<>>
    ELSE LET fa == TH_first_assigned(i)
         IN  IF IsSome(fa) /\ IsSome(Get(fa).event_date)
             THEN << triage_row(i, Get(fa), "hours") >>
             ELSE <<>>

\* one iteration of the loop of triage_time_analysis, months module
TM_rows_of(i) ==
    IF ~IsSome(i.created_date) THEN <<>>
    ELSE LET fa == TM_first_assignment_event(i)
         IN  IF IsSome(fa) /\ IsSome(Get(fa).event_date)
             THEN << triage_row(i, Get(fa), "months") >>
             ELSE <<>>

\* the rows one issue contributes in the module of unit u
rows_of(i, u) ==
    CASE u = "days" -> TD_rows_of(i)
      [] u = "hours" -> TH_rows_of(i)
      [] u = "months" -> TM_rows_of(i)

InitTriageRun ==
    /\ unit \in Units
    /\ user_filter \in {None, Some("alice"), Some("bob")}
    /\ \E shapes \in SeqsUpTo(TriageRunIssues, MaxTriageIssues) :
           issues = Numbered(shapes)
    /\ pc = "triage"
    /\ idx = 0
    /\ triage_rows = <<>>
    /\ variant = "none"
    /\ label_filter = None
    /\ filtered_issues = <<>>
    /\ now = 0
    /\ open_issues = <<>>
    /\ aging_data = <<>>
    /\ results = NoResults
    /\ printed = {}
    /\ executed = {}
    /\ issue = NoIssue
    /\ rpc = "off"
    /\ closed_at = None
    /\ completion = None
    /\ first_assigned = None
    /\ trend = [drawn |-> FALSE, overall |-> <<>>, labels |-> <<>>]
    /\ since = None
    /\ calls = 0
    /\ runs = 0
    /\ first_run = None
    /\ passed = None
    /\ activity = NoActivity
    /\ datasets = <<>>
    /\ normalized = NoCall

\* one iteration of `for issue in issues`
TriageStep ==
    /\ pc = "triage"
    /\ idx < Len(issues)
    /\ triage_rows' = triage_rows \o rows_of(issues[idx + 1], unit)
    /\ idx' = idx + 1
    /\ UNCHANGED <<variant, issues, user_filter, label_filter, filtered_issues, pc,
                   now, open_issues, aging_data, results, printed, executed,
                   resolveVars, trend, sessionVars, apiVars>>

\* after the loop: the frame of the rows, the message when it is empty
TriageSummary ==
    /\ pc = "triage"
    /\ idx = Len(issues)
    /\ pc' = "triage_done"
    /\ printed' = IF triage_rows = <<>>
                  THEN printed \cup {"No triage/assignment events found in dataset."}
                  ELSE printed \cup {"Triage time summary"}
    /\ UNCHANGED <<variant, issues, user_filter, label_filter, filtered_issues, idx,
                   now, open_issues, aging_data, results, executed, resolveVars,
                   trend, sessionVars, triage_rows, apiVars>>

NextTriageRun == TriageStep \/ TriageSummary

SpecTriageRun == InitTriageRun /\ [][NextTriageRun]_vars

----------------------------------------------------------------------------
\* The three triage modules over one issue collection

\* the dataset triage_time_analysis of the module of unit u returns
RECURSIVE triage_dataset(_, _)
triage_dataset(all, u) ==
    IF all = <<>> THEN <<>>
    ELSE rows_of(Head(all), u) \o triage_dataset(Tail(all), u)

\* collections of the issues of the row loop, and every single issue handed to
\* the first-assignment resolver
UnitCollections ==
    { Numbered(shapes) : shapes \in SeqsUpTo(TriageRunIssues, MaxTriageIssues) }
    \cup { <<i>> : i \in TriageIssues }

InitUnits ==
    /\ issues \in UnitCollections
    /\ unit = "none"
    /\ user_filter = None
    /\ pc = "off"
    /\ idx = 0
    /\ triage_rows = <<>>
    /\ variant = "none"
    /\ label_filter = None
    /\ filtered_issues = <<>>
    /\ now = 0
    /\ open_issues = <<>>
    /\ aging_data = <<>>
    /\ results = NoResults
    /\ printed = {}
    /\ executed = {}
    /\ issue = NoIssue
    /\ rpc = "off"
    /\ closed_at = None
    /\ completion = None
    /\ first_assigned = None
    /\ trend = [drawn |-> FALSE, overall |-> <<>>, labels |-> <<>>]
    /\ since = None
    /\ calls = 0
    /\ runs = 0
    /\ first_run = None
    /\ passed = None
    /\ activity = NoActivity
    /\ datasets = <<>>
    /\ normalized = NoCall

\* triage_time_analysis of one module, from the loaded issues to the dataset
TriageAnalysis(u) ==
    /\ u \notin DOMAIN datasets
    /\ unit' = u
    /\ triage_rows' = triage_dataset(issues, u)
    /\ datasets' = (u :> triage_rows') @@ datasets
    /\ UNCHANGED <<variant, runVars, issue, rpc, closed_at, completion,
                   first_assigned, trend, sessionVars, passed, activity,
                   normalized>>

NextUnits == \E u \in Units : TriageAnalysis(u)

SpecUnits == InitUnits /\ [][NextUnits]_vars

----------------------------------------------------------------------------
\* A call of a timestamp normalizer

\* wall-clock readings of the arguments: midnight, a day later, an hour into
\* day 5, half an hour before the end of January
NormWalls == {0, Day, 5 * Day + 3600, 31 * Day - 1800}

NormOffsets == {None, Some(0), Some(3600), Some(0 - 18000)}

\* a datetime object, a text that denotes a date, a text that does not
NormValues ==
    { [kind |-> k, ok |-> TRUE, wall |-> w, tz |-> z] :
        k \in {"datetime", "text"}, w \in NormWalls, z \in NormOffsets }
    \cup { [kind |-> "text", ok |-> FALSE, wall |-> 0, tz |-> None] }

\* _to_utc_dt (CTA, F2) on any argument: None, a datetime, or another value
\* read through pd.to_datetime(str(x), utc=True, errors="coerce")
to_utc_dt_any(x) ==
    IF ~IsSome(x) THEN None
    ELSE IF Get(x).kind = "datetime"
         THEN to_utc_dt(Some([wall |-> Get(x).wall, tz |-> Get(x).tz]))
         ELSE pd_to_datetime_utc([ok |-> Get(x).ok, wall |-> Get(x).wall,
                                  tz |-> Get(x).tz])

\* CompletionAnalysis._to_utc_timestamp (CA) on None, '' or a text
CA_to_utc_timestamp_any(x) ==
    IF ~IsSome(x) THEN None
    ELSE CA_to_utc_timestamp([ok |-> Get(x).ok, wall |-> Get(x).wall,
                              tz |-> Get(x).tz])

normalize(v, x) ==
    IF v = "CA" THEN CA_to_utc_timestamp_any(x) ELSE to_utc_dt_any(x)

\* the arguments of a call: CA passes None, '' or str(value); CTA and F2 pass
\* None or the value itself
NormArguments(v) ==
    {None} \cup { Some(nv) : nv \in { a \in NormValues : v = "CA" => a.kind = "text" } }

InitNormalize ==
    /\ variant \in Variants
    /\ \E x \in NormArguments(variant) :
         normalized = [state |-> "called", x |-> x, out |-> None]
    /\ issues = <<>>
    /\ user_filter = None
    /\ label_filter = None
    /\ filtered_issues = <<>>
    /\ pc = "off"
    /\ idx = 0
    /\ now = 0
    /\ open_issues = <<>>
    /\ aging_data = <<>>
    /\ results = NoResults
    /\ printed = {}
    /\ executed = {}
    /\ trend = [drawn |-> FALSE, overall |-> <<>>, labels |-> <<>>]
    /\ since = None
    /\ calls = 0
    /\ runs = 0
    /\ first_run = None
    /\ passed = None
    /\ activity = NoActivity
    /\ datasets = <<>>
    /\ InitResolveIdle

\* the call returns
Normalize ==
    /\ normalized.state = "called"
    /\ normalized' = [normalized EXCEPT !.state = "returned",
                                        !.out = normalize(variant, normalized.x)]
    /\ UNCHANGED <<variant, runVars, resolveVars, trend, sessionVars, triage_rows,
                   passed, activity, datasets>>

NextNormalize == Normalize

SpecNormalize == InitNormalize /\ [][NextNormalize]_vars

----------------------------------------------------------------------------
\* The module-level run(issues, config_dict)

\* the caller's issues carry numbers apart from those of the loaded data set
PassedBase == 10

NumberedFrom(shapes, base) ==
    [k \in DOMAIN shapes |-> [shapes[k] EXCEPT !.number = base + k]]

\* before run(issues): the data set the loader returns, the issues argument
InitModuleRun ==
    /\ variant \in Variants
    /\ \E shapes \in SeqsUpTo(FilterShapes, MaxFilterIssues) : issues = Numbered(shapes)
    /\ passed \in {None} \cup
         { Some(NumberedFrom(shapes, PassedBase)) :
             shapes \in SeqsUpTo(FilterShapes, MaxFilterIssues) }
    /\ user_filter \in {None, Some("alice")}
    /\ label_filter = None
    /\ since = None
    /\ filtered_issues = <<>>
    /\ pc = "new"
    /\ idx = 0
    /\ now = NowStart
    /\ open_issues = <<>>
    /\ aging_data = <<>>
    /\ results = NoResults
    /\ printed = {}
    /\ executed = {}
    /\ trend = NoTrend
    /\ calls = 0
    /\ runs = 0
    /\ first_run = None
    /\ activity = NoActivity
    /\ datasets = <<>>
    /\ normalized = NoCall
    /\ InitResolveIdle

\* self.issues when analysis.run() is called: CA constructs the analysis and
\* runs it; CTA and F2 replace analysis.issues when issues is not None
analysed_issues(v, loaded, given) ==
    IF v \in {"CTA", "F2"} /\ IsSome(given) THEN Get(given) ELSE loaded

\* run(issues, config_dict) up to the call of analysis.run()
ModuleRun ==
    /\ pc = "new"
    /\ issues' = analysed_issues(variant, issues, passed)
    /\ filtered_issues' = FilterIssues(variant, issues', user_filter, label_filter)
    /\ calls' = IF variant \in {"CTA", "F2"} /\ IsSome(passed) THEN 2 ELSE 1
    /\ pc' = "ready"
    /\ UNCHANGED <<variant, user_filter, label_filter, idx, now, open_issues,
                   aging_data, results, printed, executed, resolveVars, trend,
                   since, runs, first_run, triage_rows, apiVars>>

NextModuleRun == ModuleRun \/ Next

SpecModuleRun == InitModuleRun /\ [][NextModuleRun]_vars

----------------------------------------------------------------------------
\* Runs over collections large enough for a monthly trend chart

MaxTrendIssues == 6

\* Closed issues: created in January and closed in February (30 days, label
\* bug), created and closed in February (10 days, label ui).  Open issues, seen
\* from day 100: 50 days old (label bug), 80 days old (label ui).
TrendShapes ==
    { Iss(0, "alice", "closed", Some(Utc(10 * Day)), None, <<"bug">>, <<>>,
          <<Ev(T_closed, Some(Utc(40 * Day)))>>),
      Iss(0, "alice", "closed", Some(Utc(35 * Day)), None, <<"ui">>, <<>>,
          <<Ev(T_closed, Some(Utc(45 * Day)))>>),
      Iss(0, "bob", "open", Some(Utc(50 * Day)), None, <<"bug">>, <<>>, <<>>),
      Iss(0, "bob", "open", Some(Utc(20 * Day)), None, <<"ui">>, <<>>, <<>>) }

InitTrend ==
    /\ variant \in Variants
    /\ \E shapes \in SeqsUpTo(TrendShapes, MaxTrendIssues) : issues = Numbered(shapes)
    /\ user_filter = None
    /\ label_filter = None
    /\ filtered_issues = FilterIssues(variant, issues, user_filter, label_filter)
    /\ pc = "ready"
    /\ idx = 0
    /\ now = NowStart
    /\ open_issues = <<>>
    /\ aging_data = <<>>
    /\ results = NoResults
    /\ printed = {}
    /\ executed = {}
    /\ trend = NoTrend
    /\ since = None
    /\ calls = 1
    /\ runs = 0
    /\ first_run = None
    /\ passed = None
    /\ activity = NoActivity
    /\ datasets = <<>>
    /\ normalized = NoCall
    /\ InitResolveIdle

SpecTrend == InitTrend /\ [][Next]_vars

----------------------------------------------------------------------------
\* Properties of CompletionAnalysis.run

\* run is over: it returned, or an exception escaped
Ended == pc \in {"done", "raised"}

\* the issue of the loaded collection a record belongs to
IssueOf(r) == issues[r.issue_number]

\* C1: no record of a completion dataset carries a negative completion time
\* (a closed issue closed before it was created is discarded), in CA, CTA, F2.
C1_NoNegativeCompletion ==
    (Ended /\ results.mode = "completion") =>
      \A k \in DOMAIN results.records : results.records[k].value >= 0

\* some closed filtered issue has a non-null completion duration
HasDuration ==
    \E k \in DOMAIN filtered_issues :
       /\ filtered_issues[k].state = "closed"
       /\ IsSome(CompletionTime(variant, filtered_issues[k]))

\* the aging analysis went over exactly the open filtered issues
AgedExactlyOpen ==
    /\ open_issues = SelectSeq(filtered_issues, LAMBDA i : i.state = "open")
    /\ idx = Len(open_issues) + 1
    /\ { results.records[k].issue_number : k \in DOMAIN results.records } =
         { filtered_issues[k].number : k \in
             { j \in DOMAIN filtered_issues :
                 /\ filtered_issues[j].state = "open"
                 /\ IsSome(filtered_issues[j].created_date) } }

NoDataMessages ==
    {"No valid aging data found for open issues.", "No open issues to analyze.",
     "No usable closed timestamps. Nothing to plot."}

\* C6: when no record survives in the selected mode, run returns normally an
\* empty result without statistics, a no-data message was printed, and no
\* statistics or chart step was executed.
C6_NoDataOutcome ==
    (Ended /\ results.records = <<>>) =>
      /\ pc = "done"
      /\ results.raised = ""
      /\ results.statistics = None
      /\ results.label_stats = <<>>
      /\ printed \cap NoDataMessages # {}
      /\ executed = {}

\* C6 witness: CA over a closed and an open issue, both without a created
\* date: both no-data messages were printed and the result is empty
C6_Witness ==
    /\ pc = "done"
    /\ variant = "CA"
    /\ Len(filtered_issues) = 2
    /\ \A k \in DOMAIN filtered_issues : filtered_issues[k].created_date = None
    /\ results.records = <<>>
    /\ "No valid completion times found for closed issues." \in printed
    /\ "No valid aging data found for open issues." \in printed

\* C7: all ages of one aging run are taken against the same now, so for two
\* records A and B of the run age(A) - age(B) = created(B) - created(A).
C7_NowCapturedOnce ==
    (pc = "done" /\ results.mode = "aging") =>
      \A a, b \in DOMAIN results.records :
        results.records[a].value - results.records[b].value =
          RawInstant(Get(IssueOf(results.records[b]).created_date))
            - RawInstant(Get(IssueOf(results.records[a]).created_date))

\* number of records whose value, in days, is above lo and at most hi
Between(recs, lo, hi) ==
    Cardinality({ k \in DOMAIN recs :
                    recs[k].value > lo * Day /\ recs[k].value <= hi * Day })

\* C8: in the completion and the aging analysis of CA every record is counted
\* by exactly one of the buckets d<=7, 7<d<=30, 30<d<=90, d>90 (7, 30 and 90
\* in the lower one), and the four counts sum to the record count.
C8_BucketsPartition ==
    (Ended /\ variant = "CA" /\ results.mode \in {"completion", "aging"}
       /\ results.records # <<>>) =>
      /\ IsSome(results.statistics)
      /\ LET st == Get(results.statistics)
             recs == results.records
         IN  /\ st.count = Len(recs)
             /\ st.fast = Cardinality({ k \in DOMAIN recs : recs[k].value <= 7 * Day })
             /\ st.normal = Between(recs, 7, 30)
             /\ st.slow = Between(recs, 30, 90)
             /\ st.stale = Cardinality({ k \in DOMAIN recs : recs[k].value > 90 * Day })
             /\ st.fast + st.normal + st.slow + st.stale = st.count

\* C8 witness: a completion run of CA over durations of 7, 30 and 90 days
C8_Witness ==
    /\ pc = "done"
    /\ variant = "CA"
    /\ results.mode = "completion"
    /\ { results.records[k].value : k \in DOMAIN results.records } =
         {7 * Day, 30 * Day, 90 * Day}
    /\ Get(results.statistics) =
         [count |-> 3, fast |-> 1, normal |-> 1, slow |-> 1, stale |-> 0]

----------------------------------------------------------------------------
\* Properties of the label groups

\* the run ended with a label analysis: every path but the aging of F2
Grouped == Ended /\ results.records # <<>> /\ results.label_groups # <<>>

LabelNames == { LabelOrder[k] : k \in DOMAIN LabelOrder }

\* the values of the records that carry the label, in record order
ValuesOfLabel(recs, lab) ==
    LET sel == SelectSeq(recs, LAMBDA r : \E k \in DOMAIN r.labels : r.labels[k] = lab)
    IN  [k \in DOMAIN sel |-> sel[k].value]

GroupOf(lab) ==
    { k \in DOMAIN results.label_groups : results.label_groups[k].label = lab }

RECURSIVE SumLen(_)
SumLen(sq) == IF sq = <<>> THEN 0 ELSE Len(Head(sq)) + SumLen(Tail(sq))

\* C9: the group of a label holds exactly one entry, with the record's value,
\* per record carrying the label, and nothing else; the group counts sum to
\* the sum of the records' label counts, which is >= the number of records.
C9_LabelFanOut ==
    Grouped =>
      LET recs == results.records
          groups == results.label_groups
      IN  /\ \A lab \in LabelNames :
                IF ValuesOfLabel(recs, lab) = <<>> THEN GroupOf(lab) = {}
                ELSE /\ Cardinality(GroupOf(lab)) = 1
                     /\ \A k \in GroupOf(lab) :
                          groups[k].values = ValuesOfLabel(recs, lab)
          /\ \A k \in DOMAIN groups : groups[k].label \in LabelNames
          /\ SumLen([k \in DOMAIN groups |-> groups[k].values])
               = SumLen([k \in DOMAIN recs |-> recs[k].labels])
          /\ SumLen([k \in DOMAIN groups |-> groups[k].values]) >= Len(recs)

\* C9 witness: one record with labels bug and ui and a duration of 30 days:
\* each of the two groups holds that one value
C9_Witness ==
    /\ pc = "done"
    /\ Len(results.records) = 1
    /\ results.records[1].labels = <<"bug", "ui">>
    /\ results.label_groups =
         << [label |-> "bug", values |-> <<30 * Day>>],
            [label |-> "ui", values |-> <<30 * Day>>] >>

\* the minimum count of the analysis that ran
Threshold == IF variant = "CA" /\ results.mode = "aging" THEN 2 ELSE 3

Listed == { results.label_stats[k].label : k \in DOMAIN results.label_stats }

PassingGroups ==
    { k \in DOMAIN results.label_groups :
        Len(results.label_groups[k].values) >= Threshold }

\* C10 as claimed: a label group is reported iff its count is >= the
\* threshold of the analysis.
C10_GateIff ==
    Grouped =>
      \A k \in DOMAIN results.label_groups :
        results.label_groups[k].label \in Listed <=> k \in PassingGroups

\* C10 amended: every reported group has a count >= the threshold (and is
\* reported once, with its count); every group with a count >= the threshold
\* is reported, except that the listings of CA hold only the first 10 of them.
C10_GateTop10 ==
    Grouped =>
      /\ \A j \in DOMAIN results.label_stats :
            /\ results.label_stats[j].count >= Threshold
            /\ \E k \in PassingGroups :
                 /\ results.label_groups[k].label = results.label_stats[j].label
                 /\ Len(results.label_groups[k].values) = results.label_stats[j].count
      /\ Cardinality(Listed) = Len(results.label_stats)
      /\ Len(results.label_stats) =
           IF variant = "CA" /\ Cardinality(PassingGroups) > 10
           THEN 10
           ELSE Cardinality(PassingGroups)

\* C10 witness: an aging run of CA in which eleven labels have two records
\* each and a twelfth has one: ten are listed
C10_Witness ==
    /\ pc = "done"
    /\ variant = "CA"
    /\ results.mode = "aging"
    /\ Cardinality(PassingGroups) = 11
    /\ Len(results.label_groups) = 12
    /\ Len(results.label_stats) = 10

----------------------------------------------------------------------------
\* Properties of the monthly trend

\* number of completion records of the run that fall in month ym
MonthRecords(ym) ==
    LET closed == ClosedIssues(filtered_issues)
        mrows == IF variant = "CA" THEN CA_monthly_data(closed)
                 ELSE closed_month_rows(variant, closed)
    IN  Cardinality({ k \in DOMAIN mrows : mrows[k].month = ym })

\* C11: every point of the trend chart, of the overall series and of each
\* label series, comes from a month with at least 3 completion records, and
\* the summary statistics count every record whatever its month.
C11_TrendMonthsGated ==
    (Ended /\ results.mode = "completion") =>
      /\ \A k \in DOMAIN trend.overall : MonthRecords(trend.overall[k].month) >= 3
      /\ \A k \in DOMAIN trend.labels : MonthRecords(trend.labels[k].month) >= 3
      /\ IsSome(results.statistics)
      /\ Get(results.statistics).count = Len(results.records)

----------------------------------------------------------------------------
\* Properties of _filter_issues

\* the filter has been applied at least once
Filtered == calls > 0

UserOk(i) == IsSome(user_filter) => i.creator = Get(user_filter)

\* the filter label is one of the issue's own labels
LabelOk(i) ==
    IsSome(label_filter) => \E k \in DOMAIN i.labels : i.labels[k] = Get(label_filter)

\* a since parameter is set and its text is a date
SinceActive == IsSome(since) /\ Get(since).ok

\* the created instant resolves and is not before the since instant
SinceOk(i) ==
    SinceActive =>
      /\ IsSome(i.created_date)
      /\ RawInstant(Get(i.created_date)) >= RawInstant(Get(since))

\* C12: _filter_issues returns exactly the source issues, in source order, that
\* pass every active predicate: creator equal to the user filter, filter label
\* among the issue's own labels (an issue without labels passes no label
\* filter); an unset predicate excludes nothing.
C12_FilterExact ==
    Filtered =>
      filtered_issues = SelectSeq(issues, LAMBDA i : UserOk(i) /\ LabelOk(i) /\ SinceOk(i))

\* position k of the source is among the issues returned
Kept(k) == \E j \in DOMAIN filtered_issues : filtered_issues[j] = issues[k]

\* the issues that pass the user and label steps
PassOthers == FilterIssues(variant, issues, user_filter, label_filter)

\* C13: with a parseable since filter an issue (that passes the other filters)
\* is kept iff its created instant resolves and is >= the since instant.
C13_SinceKeeps ==
    (Filtered /\ SinceActive) =>
      /\ filtered_issues = SelectSeq(PassOthers, SinceOk)
      /\ \A k \in DOMAIN issues :
            Kept(k) => /\ IsSome(issues[k].created_date)
                       /\ RawInstant(Get(issues[k].created_date))
                            >= RawInstant(Get(since))

\* C13 witness: an issue created exactly at the since instant is kept and one
\* created a second before it is dropped
C13_Witness ==
    /\ Filtered /\ SinceActive
    /\ user_filter = None /\ label_filter = None
    /\ Len(issues) = 2
    /\ IsSome(issues[1].created_date) /\ IsSome(issues[2].created_date)
    /\ RawInstant(Get(issues[1].created_date)) = SinceInstant
    /\ RawInstant(Get(issues[2].created_date)) = SinceInstant - 1
    /\ Kept(1) /\ ~Kept(2)

\* C14: an unparseable since parameter filters nothing (issues without a
\* created date stay) and the run does not fail.
C14_UnparseableSince ==
    (Filtered /\ IsSome(since) /\ ~Get(since).ok) =>
      /\ filtered_issues = PassOthers
      /\ pc # "raised"

\* C14 witness: a run has ended normally over an issue without a created date
\* that an unparseable since parameter left in
C14_Witness ==
    /\ pc = "done"
    /\ IsSome(since) /\ ~Get(since).ok
    /\ \E j \in DOMAIN filtered_issues : filtered_issues[j].created_date = None

----------------------------------------------------------------------------
\* Properties of a repeated run

\* C16: a second run over the same issues with the same parameters ends in the
\* same mode with the same summary statistics (count, mean, median,
\* percentiles, bucket counts) as the first, in completion-time mode and in
\* aging mode.
C16_Idempotent ==
    (pc = "done" /\ runs = 1) => Get(first_run) = RunReport

----------------------------------------------------------------------------
\* Properties of the triage rows

\* C17: no row of a triage analysis (days, hours, months) carries a negative
\* duration: an issue whose first assignment event is dated before its created
\* date contributes no row.
C17_TriageNonNegative ==
    \A k \in DOMAIN triage_rows : triage_rows[k].value.num >= 0

\* C20: when a user is configured, every row of the triage analysis belongs to
\* an issue whose creator is that user.
C20_TriageUserFilter ==
    IsSome(user_filter) =>
        \A k \in DOMAIN triage_rows : triage_rows[k].creator = Get(user_filter)

----------------------------------------------------------------------------
\* Properties of event classification

\* C18: a dated event whose type is "closed" in any letter case ("Closed",
\* "CLOSED") is used as a closing event: an issue with such an event gets a
\* close instant, and it is the instant of one of these events.
C18_ClosedAnyCase ==
    (rpc # "start" /\ DatedClosed(issue) # {}) =>
        /\ IsSome(closed_at)
        /\ \E k \in DatedClosed(issue) :
             Instant(Get(closed_at)) = RawInstant(Get(issue.events[k].event_date))

\* assignment-indicating as stated: the type test, or the text heuristic on
\* label and comment whatever the event_type
AssignmentIndicating(e) ==
    \/ Lower(Strip(e.event_type)) \in AssignTypes
    \/ Contains(Lower(e.label), T_assign)
    \/ Contains(Lower(e.comment), T_assign)

\* C19: an issue with a created date and an assignment-indicating event (by
\* type, or by label / comment text whatever its event_type, a missing or
\* empty one included) gets a first assignment event, and the resolver returns
\* an assignment-indicating event or none.
C19_AssignmentIndicating ==
    (rpc = "assigned" /\ IsSome(issue.created_date)) =>
        /\ (\E k \in DOMAIN issue.events : AssignmentIndicating(issue.events[k]))
             => IsSome(first_assigned)
        /\ IsSome(first_assigned) => AssignmentIndicating(Get(first_assigned))

----------------------------------------------------------------------------
\* Properties of the module-level run

NumbersOf(seq) == { seq[k].number : k \in DOMAIN seq }

\* C21: when the caller passes an issues list, the analysed collection is that
\* list: the filtered issues and every record of the result come from it; the
\* loaded data set is analysed only when no list is passed.
C21_PassedIssuesAnalysed ==
    (pc # "new") =>
        LET src == IF IsSome(passed) THEN Get(passed) ELSE issues
        IN  /\ \A k \in DOMAIN filtered_issues : InSeq(filtered_issues[k], src)
            /\ \A k \in DOMAIN results.records :
                 results.records[k].issue_number \in NumbersOf(src)
            /\ \A k \in DOMAIN aging_data :
                 aging_data[k].issue_number \in NumbersOf(src)

----------------------------------------------------------------------------
\* Properties of the monthly series

\* the month of the resolved close instant of the issue of a record
CloseMonth(r) == year_month(Get(ClosedAt(variant, IssueOf(r))))

\* C22: the monthly median series is keyed by the month of the close instant:
\* the point of month M is made of the completion records closed in M (their
\* number and their median), so a record created in M1 and closed in a later
\* M2 counts at M2 and not at M1.
C22_KeyedByCloseMonth ==
    (Ended /\ trend.drawn) =>
        \A k \in DOMAIN trend.overall :
            LET pt == trend.overall[k]
                own == SelectSeq(results.records, LAMBDA r : CloseMonth(r) = pt.month)
            IN  /\ pt.count = Len(own)
                /\ own # <<>>
                /\ pt.median2 = Median2([j \in DOMAIN own |-> own[j].value])

----------------------------------------------------------------------------
\* Properties of the triage units

\* C23: over the same issues the days, hours and months modules return rows
\* for the same issues with the same assigned_date, and the values are the same
\* elapsed seconds divided by 86400 (days), 3600 (hours) and 86400 * 30.4375
\* (months).
C23_UnitsAgree ==
    (DOMAIN datasets = Units) =>
        LET d == datasets["days"]
            h == datasets["hours"]
            mo == datasets["months"]
        IN  /\ Len(d) = Len(h)
            /\ Len(d) = Len(mo)
            /\ \A k \in DOMAIN d :
                 /\ d[k].issue_number = h[k].issue_number
                 /\ d[k].issue_number = mo[k].issue_number
                 /\ d[k].assigned_date = h[k].assigned_date
                 /\ d[k].assigned_date = mo[k].assigned_date
                 /\ d[k].value.num = h[k].value.num
                 /\ d[k].value.num = mo[k].value.num
                 /\ d[k].value.num =
                      Instant(d[k].assigned_date) - Instant(d[k].created_date)
                 /\ d[k].value.den = 86400
                 /\ h[k].value.den = 3600
                 /\ mo[k].value.den = (864 * 304375) \div 100

\* C23 witness: an issue created on day 2 with an undated assignment, a late
\* and an early dated one; the three modules each return one row, 1 day
\* (24 hours) after creation
C23_Witness ==
    /\ DOMAIN datasets = Units
    /\ issues = << Iss(1, "alice", "open", Some(Utc(2 * Day)), None, <<>>, <<>>,
                       << Ev(T_assigned, Some(Utc(5 * Day))),
                          Ev(T_commented, Some(Utc(1 * Day))),
                          Ev(T_assigned, Some(Utc(3 * Day))) >>) >>
    /\ Len(datasets["hours"]) = 1
    /\ datasets["hours"][1].value = [num |-> Day, den |-> 3600]
    /\ datasets["months"][1].value.num = Day

----------------------------------------------------------------------------
\* Properties of timestamp normalization

\* C24: the normalizer returns null for a null argument and for one that is no
\* date, the same wall-clock reading tagged UTC for a value without timezone,
\* and the same instant expressed in UTC for a value with a timezone.
C24_NormalizeToUtc ==
    (normalized.state = "returned") =>
        LET x == normalized.x
            r == normalized.out
        IN  IF x = None \/ ~Get(x).ok THEN r = None
            ELSE IF Get(x).tz = None
                 THEN r = Some([wall |-> Get(x).wall, tz |-> Some(0)])
                 ELSE r = Some(Utc(Get(x).wall - Get(Get(x).tz)))

----------------------------------------------------------------------------
\* Properties of the order of the label listings

\* the median (doubled) of the values of the group of a label
GroupMedian2(lab) ==
    LET k == CHOOSE g \in DOMAIN results.label_groups :
                 results.label_groups[g].label = lab
    IN  Median2(results.label_groups[k].values)

\* the median a listing reports for a label: the group median, rounded to one
\* decimal of a day in the listings of completion_analysis
ReportedMedian2(lab) ==
    IF variant = "CA" THEN Round1(GroupMedian2(lab)) ELSE GroupMedian2(lab)

\* C25: the completion-time label listing is in non-decreasing order of the
\* medians it reports (its first group has the minimum and, where a slowest
\* label is reported, its last group the maximum reported median of the gated
\* groups), the stalest-label listing of the aging analysis is in
\* non-increasing order, a listing of completion_analysis holds at most 10
\* groups, and every listed group passed the minimum-count gate.
C25_OrderedByMedian ==
    Grouped =>
      LET l == results.label_stats
          asc == results.mode = "completion"
          gated == { ReportedMedian2(results.label_groups[k].label) :
                       k \in PassingGroups }
      IN  /\ \A j \in DOMAIN l : l[j].median2 = ReportedMedian2(l[j].label)
          /\ \A i, j \in DOMAIN l :
                i < j => IF asc THEN l[i].median2 <= l[j].median2
                         ELSE l[i].median2 >= l[j].median2
          /\ (asc /\ l # <<>>) =>
                /\ l[1].median2 = SetMin(gated)
                /\ variant # "CA" => l[Len(l)].median2 = SetMax(gated)
          /\ variant = "CA" => Len(l) <= 10
          /\ \A j \in DOMAIN l : l[j].count >= Threshold

\* C25 witness: completion_analysis over three issues labelled bug closed
\* after 30 days and three labelled ui closed after 10 days lists ui, then bug
C25_Witness ==
    /\ pc = "done"
    /\ variant = "CA"
    /\ results.mode = "completion"
    /\ results.label_stats =
         << [label |-> "ui", median2 |-> 20 * Day, count |-> 3],
            [label |-> "bug", median2 |-> 60 * Day, count |-> 3] >>

----------------------------------------------------------------------------
\* Properties of the rows of undated assignments

\* the issue has a dated event that passes the tests of the resolver
HasDatedQualifying(i) ==
    \E k \in DOMAIN i.events :
        Qualifies(i.events[k]) /\ IsSome(i.events[k].event_date)

\* C26: every issue with a created date and a dated qualifying event has a row
\* in the dataset of each triage module, also when another qualifying event has
\* no event_date.
C26_DatedQualifyingYieldsRow ==
    \A u \in DOMAIN datasets :
        \A k \in DOMAIN issues :
            (IsSome(issues[k].created_date) /\ HasDatedQualifying(issues[k]))
              => \E j \in DOMAIN datasets[u] :
                     datasets[u][j].issue_number = issues[k].number

----------------------------------------------------------------------------
\* Properties of close-time resolution with undated closing events

----------------------------------------------------------------------------
\* UserActivityAnalysis: the activity of one user by label and month

MaxActivityIssues == 2

\* labels.AREA_LABELS / labels.KIND_LABELS: lists of distinct label texts
AREA_LABELS == <<"area/docs", "area/cli">>

KIND_LABELS == <<"kind/bug", "kind/feature">>

\* `if x:` of an optional text: set and not empty
Truthy(p) == IsSome(p) /\ Get(p) # ""

\* an event with its author
AEv(type, date, author) == [Ev(type, date) EXCEPT !.author = author]

\* Issues of the activity analysis: opened by the user or by someone else,
\* with events of both, in January, February and March 2023 and February
\* 2024; one event late on 31 January at -05:00 (1 February in UTC), one
\* event of the user without a date, one issue with a label of neither list.
ActivityShapes ==
    { Iss(0, "alice", "open", Some(Utc(10 * Day)), None,
          <<"area/docs", "kind/bug">>, <<>>,
          <<AEv(T_commented, Some(Utc(40 * Day)), "alice"),
            AEv(T_labeled, Some(Utc(12 * Day)), "bob")>>),
      Iss(0, "bob", "closed", Some(Utc(5 * Day)), None, <<"kind/bug">>, <<>>,
          <<AEv(T_closed, Some([wall |-> 31 * Day - 1800, tz |-> Some(0 - 18000)]),
                "alice")>>),
      Iss(0, "alice", "open", Some(Utc(70 * Day)), None, <<"other">>, <<>>, <<>>),
      Iss(0, "bob", "open", Some(Utc(20 * Day)), None, <<"area/cli">>, <<>>,
          <<AEv(T_commented, None, "alice")>>),
      Iss(0, "bob", "open", None, None, <<"kind/feature", "area/docs">>, <<>>,
          <<AEv(T_commented, None, "bob"),
            AEv(T_assigned, Some(Utc(400 * Day)), "alice")>>) }

\* before UserActivityAnalysis(): the parameters and the stored issues
InitActivity ==
    /\ \E shapes \in SeqsUpTo(ActivityShapes, MaxActivityIssues) :
          issues = Numbered(shapes)
    /\ user_filter \in {None, Some(""), Some("alice")}
    /\ label_filter \in {None, Some(""), Some("kind/bug")}
    /\ activity = NoActivity
    /\ unit = "none"
    /\ pc = "off"
    /\ idx = 0
    /\ triage_rows = <<>>
    /\ variant = "none"
    /\ filtered_issues = <<>>
    /\ now = 0
    /\ open_issues = <<>>
    /\ aging_data = <<>>
    /\ results = NoResults
    /\ printed = {}
    /\ executed = {}
    /\ issue = NoIssue
    /\ rpc = "off"
    /\ closed_at = None
    /\ completion = None
    /\ first_assigned = None
    /\ trend = [drawn |-> FALSE, overall |-> <<>>, labels |-> <<>>]
    /\ since = None
    /\ calls = 0
    /\ runs = 0
    /\ first_run = None
    /\ passed = None
    /\ datasets = <<>>
    /\ normalized = NoCall

\* `if config.get_parameter('label')` of the constructor
init_rejects(label) == Truthy(label)

\* UserActivityAnalysis()
UserActivityAnalysis ==
    /\ activity.pc = "off"
    /\ activity' =
          IF init_rejects(label_filter)
          THEN [activity EXCEPT !.pc = "init_raised", !.raised = "RuntimeError"]
          ELSE [activity EXCEPT !.pc = "new"]
    /\ UNCHANGED <<variant, runVars, resolveVars, trend, sessionVars, triage_rows,
                   passed, datasets, normalized>>

\* Mutant of the user test: only a missing user is refused
M_run_rejects_missing(user) == ~IsSome(user)

\* `if not user` of run
run_rejects(user) == ~Truthy(user)

\* the issues opened by the user, as events
RECURSIVE OpenedBy(_, _)
OpenedBy(all, user) ==
    IF all = <<>> THEN <<>>
    ELSE LET i == Head(all) IN
         (IF i.creator = user
          THEN <<[event_type |-> "opened", event_date |-> i.created_date,
                  labels |-> i.labels]>>
          ELSE <<>>) \o OpenedBy(Tail(all), user)

\* the events of one issue the user authored
RECURSIVE AuthoredIn(_, _, _)
AuthoredIn(evs, user, labels) ==
    IF evs = <<>> THEN <<>>
    ELSE LET e == Head(evs) IN
         (IF e.author = user
          THEN <<[event_type |-> e.event_type, event_date |-> e.event_date,
                  labels |-> labels]>>
          ELSE <<>>) \o AuthoredIn(Tail(evs), user, labels)

\* the events of all issues the user authored
RECURSIVE AuthoredBy(_, _)
AuthoredBy(all, user) ==
    IF all = <<>> THEN <<>>
    ELSE AuthoredIn(Head(all).events, user, Head(all).labels)
         \o AuthoredBy(Tail(all), user)

\* Mutant of the event list: the opened issues are left out
M_ActivityEvents_authored_only(all, user) == AuthoredBy(all, user)

\* events: the opened issues, then the other activity
ActivityEvents(all, user) == OpenedBy(all, user) \o AuthoredBy(all, user)

\* list.sort(key=event_date) of dated events: stable, by instant
RECURSIVE SortedByDate(_)
SortedByDate(evs) ==
    IF evs = <<>> THEN <<>>
    ELSE LET rest == SortedByDate(Tail(evs))
             e == Head(evs)
             before == SelectSeq(rest, LAMBDA x :
                          Instant(Get(x.event_date)) < Instant(Get(e.event_date)))
             after == SelectSeq(rest, LAMBDA x :
                          Instant(Get(x.event_date)) >= Instant(Get(e.event_date)))
         IN  before \o <<e>> \o after

\* _event_to_year_month: year and month of the datetime as it reads
event_to_year_month(e) ==
    YearMonthFrom(Get(e.event_date).wall \div Day, EpochYear, 1)

\* the inner loop over e["labels"]
RECURSIVE AddLabels(_, _)
AddLabels(row, labels) ==
    IF labels = <<>> THEN row
    ELSE LET lab == Head(labels)
             r0 == IF lab \in DOMAIN row THEN row ELSE (lab :> 0) @@ row
         IN  AddLabels([r0 EXCEPT ![lab] = @ + 1], Tail(labels))

\* the loop that fills activity_by_label_by_year_month
RECURSIVE BuildTable(_, _)
BuildTable(evs, table) ==
    IF evs = <<>> THEN table
    ELSE LET e == Head(evs)
             bucket == event_to_year_month(e)
             t0 == IF bucket \in DOMAIN table THEN table ELSE (bucket :> <<>>) @@ table
         IN  BuildTable(Tail(evs),
                        [t0 EXCEPT ![bucket] = AddLabels(@, e.labels)])

\* sorted(...) of 'YYYY-MM' keys
RECURSIVE SortedMonths(_)
SortedMonths(S) ==
    IF S = {} THEN <<>>
    ELSE LET m == CHOOSE x \in S : \A y \in S : MonthKey(x) <= MonthKey(y)
         IN  <<m>> \o SortedMonths(S \ {m})

\* dict.get(label, 0)
GetOr0(row, lab) == IF lab \in DOMAIN row THEN row[lab] ELSE 0

\* area_activity / kind_activity: one list per label, one count per key
ActivitySeries(names, table) ==
    LET ks == SortedMonths(DOMAIN table)
    IN  [lab \in { names[k] : k \in DOMAIN names } |->
            [k \in DOMAIN ks |-> GetOr0(table[ks[k]], lab)]]

\* UserActivityAnalysis.run
UserActivityRun ==
    /\ activity.pc = "new"
    /\ IF run_rejects(user_filter)
       THEN activity' = [activity EXCEPT !.pc = "run_raised", !.raised = "RuntimeError"]
       ELSE LET user == Get(user_filter)
                events == ActivityEvents(issues, user)
            IN  IF \E k \in DOMAIN events : ~IsSome(events[k].event_date)
                THEN activity' = [activity EXCEPT
                        !.pc = "failed", !.loaded = TRUE,
                        !.raised = IF Len(events) > 1 THEN "TypeError"
                                   ELSE "AttributeError"]
                ELSE LET sorted == SortedByDate(events)
                         buckets == { event_to_year_month(sorted[k]) :
                                        k \in DOMAIN sorted }
                         table == BuildTable(sorted, <<>>)
                     IN  activity' = [activity EXCEPT
                            !.pc = "done", !.loaded = TRUE,
                            !.months = SortedMonths(buckets),
                            !.keys = DOMAIN table,
                            !.table = table,
                            !.area = ActivitySeries(AREA_LABELS, table),
                            !.kind = ActivitySeries(KIND_LABELS, table),
                            !.drawn = TRUE]
    /\ UNCHANGED <<variant, runVars, resolveVars, trend, sessionVars, triage_rows,
                   passed, datasets, normalized>>

NextActivity == UserActivityAnalysis \/ UserActivityRun

SpecActivity == InitActivity /\ [][NextActivity]_vars

----------------------------------------------------------------------------
\* Properties of the two populations

\* the state of the issues a dataset of the mode is made of
StateOfMode == IF results.mode = "completion" THEN "closed" ELSE "open"

\* C28: a run ends in one mode; a completion result comes with no aging rows;
\* every completion record belongs to a closed filtered issue and every aging
\* record to an open filtered issue; no issue has two records, so the count
\* is at most the number of filtered issues in that state.
C28_OneModeTwoPopulations ==
    Ended =>
      LET recs == results.records
      IN  /\ results.mode \in {"completion", "aging", "none"}
          /\ results.mode = "completion" => aging_data = <<>>
          /\ results.mode = "aging" => recs = aging_data
          /\ results.mode = "none" => recs = <<>>
          /\ \A k \in DOMAIN recs :
                /\ IssueOf(recs[k]).state = StateOfMode
                /\ InSeq(IssueOf(recs[k]), filtered_issues)
          /\ \A j, k \in DOMAIN recs :
                j # k => recs[j].issue_number # recs[k].issue_number
          /\ Len(recs) <= Len(SelectSeq(filtered_issues,
                                        LAMBDA i : i.state = StateOfMode))

\* C28 witness: an aging run under the user filter, over a collection that
\* also holds closed issues and open issues of another creator
C28_Witness ==
    /\ pc = "done"
    /\ results.mode = "aging"
    /\ user_filter = Some("alice")
    /\ Len(results.records) = 1
    /\ Len(filtered_issues) = 2
    /\ Len(issues) = 3
    /\ \E k \in DOMAIN issues : issues[k].state = "open" /\ issues[k].creator = "bob"
    /\ \E k \in DOMAIN filtered_issues : filtered_issues[k].state = "closed"

----------------------------------------------------------------------------
\* Properties of UserActivityAnalysis

\* C29: constructing with a label parameter set raises RuntimeError; run with
\* no user set raises RuntimeError before any issue is loaded or any chart is
\* drawn; with a user set and no label neither error is raised.
C29_RejectsUnsupported ==
    /\ activity.pc = "init_raised" =>
          Truthy(label_filter) /\ activity.raised = "RuntimeError"
    /\ activity.pc \in {"new", "run_raised", "failed", "done"} => ~Truthy(label_filter)
    /\ activity.pc = "run_raised" =>
          ~Truthy(user_filter) /\ activity.raised = "RuntimeError"
    /\ activity.pc \in {"init_raised", "run_raised"} =>
          ~activity.loaded /\ ~activity.drawn
    /\ activity.pc \in {"failed", "done"} =>
          /\ Truthy(user_filter)
          /\ activity.loaded
          /\ activity.raised # "RuntimeError"

\* C29 witness: run refused for an empty user, nothing loaded or drawn
C29_Witness ==
    /\ activity.pc = "run_raised"
    /\ user_filter = Some("")
    /\ Len(issues) = 2
    /\ ~activity.loaded

\* the month a datetime reads, as a 'YYYY-MM' key
MonthRead(d) == YearMonthFrom(Get(d).wall \div Day, EpochYear, 1)

\* the user's opened issues and authored events of month m on issues with lab
ActionsIn(lab, m) ==
    LET user == Get(user_filter)
        carrying == { i \in DOMAIN issues :
                        \E k \in DOMAIN issues[i].labels : issues[i].labels[k] = lab }
        opened == { i \in carrying :
                      /\ issues[i].creator = user
                      /\ MonthRead(issues[i].created_date) = m }
        authored == { ie \in carrying \X (1..MaxEvents) :
                        /\ ie[2] \in DOMAIN issues[ie[1]].events
                        /\ issues[ie[1]].events[ie[2]].author = user
                        /\ MonthRead(issues[ie[1]].events[ie[2]].event_date) = m }
    IN  Cardinality(opened) + Cardinality(authored)

\* C30: after run the months keyed in the table are the month buckets, the
\* month axis is ascending, every area and kind series has one count per
\* month, and the count of label L in month M is the number of the user's
\* opened issues and authored events dated in M on issues carrying L.
C30_SeriesAligned ==
    activity.pc = "done" =>
      LET months == activity.months
          series == activity.area @@ activity.kind
      IN  /\ activity.keys = { months[k] : k \in DOMAIN months }
          /\ \A j, k \in DOMAIN months :
                j < k => MonthKey(months[j]) < MonthKey(months[k])
          /\ DOMAIN activity.area = { AREA_LABELS[k] : k \in DOMAIN AREA_LABELS }
          /\ DOMAIN activity.kind = { KIND_LABELS[k] : k \in DOMAIN KIND_LABELS }
          /\ \A lab \in DOMAIN series :
                /\ Len(series[lab]) = Len(months)
                /\ \A k \in DOMAIN months :
                      series[lab][k] = ActionsIn(lab, months[k])
          /\ \A m \in activity.keys : \A lab \in DOMAIN activity.table[m] :
                activity.table[m][lab] = ActionsIn(lab, m)

\* C30 witness: two months on the axis, an opened issue and an authored
\* event of the user in the same month under one label, a label without
\* activity
C30_Witness ==
    /\ activity.pc = "done"
    /\ Len(activity.months) = 2
    /\ \E k \in DOMAIN activity.months : activity.kind["kind/bug"][k] = 2
    /\ \A k \in DOMAIN activity.months : activity.area["area/cli"][k] = 0

====
